---- MODULE Spec2Model ----
(***************************************************************************)
(* Model of the bookkeeping repository: CSV normalisation, the tiered      *)
(* de-duplication of csv_to_postgres.py / csv_to_raw.py, the PostgreSQL    *)
(* ingestion run and the duplicate-review workflow of the MCP management   *)
(* tools.                                                                  *)
(*                                                                         *)
(* Conventions.  A CSV cell is a string; NaN is the missing cell that      *)
(* pandas.read_csv(dtype=str) yields for an empty cell.  Account values    *)
(* are sequences of one-character strings, so that normalize_account can   *)
(* be computed character by character; every other text field is a string. *)
(* Amounts are integers in cents; a balance is the text of its float.      *)
(* Dates are ISO strings; DayOf gives the day ordinal used for date         *)
(* arithmetic.                                                              *)
(***************************************************************************)
EXTENDS Integers, Sequences, FiniteSets, TLC

VARIABLES
    csvFiles,   \* SpecDedup: the CSV files of the run
    df,         \* SpecDedup: the normalized DataFrame (a sequence of rows);
                \* SpecClear: the Raw Data sheet of the workbook
    deduped,    \* SpecDedup: the result of deduplicate_dataframe(df)
    pc,         \* SpecDedup: "load" -> "normalized" -> "deduped";
                \* SpecConcurrent: per call, the statement it sends next
    store,      \* the transactions table, in id order (id = position)
    dupReview,  \* the duplicate_review table, in insertion order
    procLog,    \* the processing_log table, in insertion order
    last,       \* what the last tool call / ingestion run did and returned;
                \* SpecConcurrent: per call, its local variables
    now         \* the logical clock behind NOW()

vars == <<csvFiles, df, deduped, pc, store, dupReview, procLog, last, now>>

-----------------------------------------------------------------------------
(* Generic sequence helpers (pandas primitives).                           *)

\* The elements of s at the positions in I, in order.
SubSeqAt(s, I) ==
    LET F[i \in 0..Len(s)] ==
            IF i = 0 THEN <<>>
            ELSE IF i \in I THEN Append(F[i-1], s[i]) ELSE F[i-1]
    IN F[Len(s)]

\* DataFrame.drop_duplicates(subset=..., keep="first"), subset being one of
\* "key1" (TxnId, Account), "key2" (Reference, Date, Amount, Time) and
\* "key3" (OriginalHash): a row stays iff no earlier row has the same
\* values in the subset.
SubsetOf(r, subset) ==
    CASE subset = "key1" -> <<r.TxnId, r.Account>>
      [] subset = "key2" -> <<r.Reference, r.Date, r.Amount, r.Time>>
      [] OTHER           -> <<r.OriginalHash>>

DropDuplicates(s, subset) ==
    SubSeqAt(s, {i \in 1..Len(s) :
                    \A j \in 1..(i-1) : SubsetOf(s[j], subset) # SubsetOf(s[i], subset)})

-----------------------------------------------------------------------------
(* Cells and their conversions.                                            *)

NaN == "<NaN>"

\* Series.astype(str) on an object column: the missing cell becomes the
\* three-letter string "nan".
AsTypeStr(cell) == IF cell = NaN THEN "nan" ELSE cell

Digits == {"0", "1", "2", "3", "4", "5", "6", "7", "8", "9"}
IsDigit(ch) == ch \in Digits

\* s[-n:] and s[:n] of Python.
LastN(s, n) == IF Len(s) <= n THEN s ELSE SubSeq(s, Len(s) - n + 1, Len(s))
FirstN(s, n) == IF Len(s) <= n THEN s ELSE SubSeq(s, 1, n)

AccountTail == 4
AccountLiteralMax == 12

\* str.strip() of a sequence of characters: without its outer blanks.
StripChars(val) ==
    LET inner == {i \in 1..Len(val) : val[i] # " "}
    IN IF inner = {} THEN <<>>
       ELSE SubSeq(val, CHOOSE i \in inner : \A j \in inner : i <= j,
                        CHOOSE i \in inner : \A j \in inner : j <= i)

\* normalize_account: the last 4 of the digits of the stripped value if it
\* has any digit, else the first 12 characters of the stripped value.
normalize_account(val) ==
    LET last4 == LastN(SelectSeq(StripChars(val), IsDigit), AccountTail)
    IN IF last4 # <<>> THEN last4 ELSE FirstN(StripChars(val), AccountLiteralMax)

Chars_nan == <<"n", "a", "n">>

\* The Account cell "**1234".
ACCT_1234 == <<"*", "*", "1", "2", "3", "4">>


\* pandas.to_datetime / dateutil on one cell, then .dt.date.astype(str) with
\* 'NaT' replaced by '': the ISO date of the cell, or "" when it does not parse.
parse_date_col(cell) ==
    CASE cell = "2024-01-03" -> "2024-01-03"
      [] cell = "01/03/2024" -> "2024-01-03"
      [] cell = "2024-01-04" -> "2024-01-04"
      [] cell = "2024-01-09" -> "2024-01-09"
      [] OTHER -> ""

\* Day ordinal of an ISO date (days since 2023-12-31).
DayOf(d) ==
    CASE d = "2024-01-03" -> 3
      [] d = "2024-01-04" -> 4
      [] d = "2024-01-09" -> 9
      [] OTHER -> 0

\* clean_amount + pandas.to_numeric(errors="coerce") on one cell of a single
\* signed amount column: <<cents>>, or <<>> for NaN.
clean_amount(cell) ==
    CASE cell = "-4.50" -> <<-450>>
      [] cell = "-4.5"  -> <<-450>>
      [] cell = "$-4.50" -> <<-450>>
      [] cell = "-4.51" -> <<-451>>
      [] cell = "12.00" -> <<1200>>
      [] OTHER -> <<>>

\* pandas.to_numeric(errors="coerce") on a Balance cell: the canonical text
\* of the float, NaN when the cell is missing or not a number.
to_numeric(cell) ==
    CASE cell = "100.00" -> "100.0"
      [] cell = "100"    -> "100.0"
      [] cell = "95.50"  -> "95.5"
      [] OTHER -> NaN

\* str.strip() of a cell: the cells of the model carry no outer blanks
\* except the ones listed here.
Strip(cell) ==
    CASE cell = " T1 " -> "T1"
      [] cell = " R1" -> "R1"
      [] OTHER -> cell

-----------------------------------------------------------------------------
(* Fingerprints.                                                           *)

\* row_content_hash: sha256 of the JSON of the eight fingerprint fields,
\* modelled as the serialized payload itself (Source is not part of it; a
\* NaN or "" balance serializes as "").
row_content_hash(row) ==
    << row.Date, row.Description, row.Amount, row.TxnId, row.Reference,
       row.Time, row.Account,
       IF row.Balance = NaN \/ row.Balance = "" THEN "" ELSE row.Balance >>

\* possible_dup_group: sha256 of "date|description|amount:.2f".
possible_dup_group(row) == << row.Date, row.Description, row.Amount >>

\* stable_rowhash: md5 of "date|description|amount", the row_hash column.
stable_rowhash(date, description, amount) == << date, description, amount >>

-----------------------------------------------------------------------------
(* normalize_csv.  A file is [stem |-> its name, cols |-> the optional      *)
(* columns its header has, missing |-> which of "Date" and "Amount" no      *)
(* column of its header stands for, rows |-> its data rows]; a data row    *)
(* has one cell per field, NaN where the cell is empty or the column is    *)
(* absent.                                                                  *)

OptionalCols == {"TxnId", "Reference", "Time", "Account", "Balance"}

\* The missing cell of the Account column (Account cells are sequences of
\* characters).
NaNAccount == <<NaN>>

\* str(val) of an Account cell: its characters, "nan" for the missing cell.
AccountStr(cell) == IF cell = NaNAccount THEN Chars_nan ELSE cell

\* The fields of one output row of normalize_csv, for a data row whose
\* amount parsed.  --source-from filename: Source is the stem of the file.
NormalizeFields(f, raw) ==
    [ Date        |-> parse_date_col(raw.Date),
      Description |-> Strip(AsTypeStr(raw.Description)),
      Amount      |-> clean_amount(raw.Amount)[1],
      Source      |-> f.stem,
      TxnId       |-> IF "TxnId" \in f.cols THEN Strip(AsTypeStr(raw.TxnId)) ELSE "",
      Reference   |-> IF "Reference" \in f.cols THEN Strip(AsTypeStr(raw.Reference)) ELSE "",
      Time        |-> IF "Time" \in f.cols THEN Strip(AsTypeStr(raw.Time)) ELSE "",
      Account     |-> IF "Account" \in f.cols
                      THEN normalize_account(AccountStr(raw.Account)) ELSE <<>>,
      Balance     |-> IF "Balance" \in f.cols THEN to_numeric(raw.Balance) ELSE "" ]

\* The output row with its two fingerprints.  Line is the position of the
\* row in the combined DataFrame (0 until pd.concat sets it); it is not a
\* column of the program and no fingerprint reads it.
NormalizeRow(f, raw) ==
    LET base == NormalizeFields(f, raw)
    IN [ Line |-> 0, Date |-> base.Date, Description |-> base.Description,
         Amount |-> base.Amount, Source |-> base.Source, TxnId |-> base.TxnId,
         Reference |-> base.Reference, Time |-> base.Time, Account |-> base.Account,
         Balance |-> base.Balance,
         OriginalHash |-> row_content_hash(base),
         PossibleDupGroup |-> possible_dup_group(base) ]

\* valid_mask of normalize_csv: Date is a string column by then (never NA),
\* so a row is dropped only when its amount is NaN.
ValidRaw(raw) == clean_amount(raw.Amount) # <<>>

normalize_csv(f) ==
    LET valid == SelectSeq(f.rows, ValidRaw)
    IN [i \in 1..Len(valid) |-> NormalizeRow(f, valid[i])]

\* normalize_csv raises ValueError: pick_column finds no date column, or
\* parse_amount_series finds no amount shape.
NormalizeRaises(f) == f.missing # {}

\* The loop of main if the first exception ended it: the files before the
\* first one that raises.
FilesUntilError(fs) ==
    LET bad == {i \in 1..Len(fs) : NormalizeRaises(fs[i])}
    IN IF bad = {} THEN fs
       ELSE SubSeq(fs, 1, (CHOOSE i \in bad : \A j \in bad : i <= j) - 1)

\* The files of a run that the loop of main normalizes (all_data), and the
\* number of those it counts as errored.
NormalizedFiles(fs) == SelectSeq(fs, LAMBDA f : ~NormalizeRaises(f))
ErrorFiles(fs) == Len(fs) - Len(NormalizedFiles(fs))

\* pd.concat(all_data, ignore_index=True) over the normalized files.
RECURSIVE ConcatAll(_)
ConcatAll(fs) ==
    IF fs = <<>> THEN <<>> ELSE normalize_csv(Head(fs)) \o ConcatAll(Tail(fs))

Combine(fs) ==
    LET c == ConcatAll(fs)
    IN [i \in 1..Len(c) |-> [c[i] EXCEPT !.Line = i]]

-----------------------------------------------------------------------------
(* deduplicate_dataframe (the same code in csv_to_postgres.py and           *)
(* csv_to_raw.py).                                                          *)

HasTxnIdAccount(r) == r.TxnId # "" /\ r.Account # <<>>
NoTxnIdAccount(r) == ~HasTxnIdAccount(r)
Key1(r) == <<r.TxnId, r.Account>>

HasReference(r) == r.Reference # ""
NoReference(r) == ~HasReference(r)
Key2(r) == <<r.Reference, r.Date, r.Amount, r.Time>>

Key3(r) == r.OriginalHash

\* Rule 1 without its drop_duplicates.
Rule1_NoDrop(d) == SelectSeq(d, HasTxnIdAccount) \o SelectSeq(d, NoTxnIdAccount)

\* Rule 1: TxnId + Account.  The rows that carry both are de-duplicated and
\* put in front of the rows that do not (pd.concat).
Rule1(d) ==
    IF \E i \in 1..Len(d) : HasTxnIdAccount(d[i])
    THEN DropDuplicates(SelectSeq(d, HasTxnIdAccount), "key1")
             \o SelectSeq(d, NoTxnIdAccount)
    ELSE d

\* Rule 2 without its drop_duplicates.
Rule2_NoDrop(d) == SelectSeq(d, HasReference) \o SelectSeq(d, NoReference)

\* Rule 2: Reference + Date + Amount + Time, on the rows with a Reference.
Rule2(d) ==
    IF \E i \in 1..Len(d) : HasReference(d[i])
    THEN DropDuplicates(SelectSeq(d, HasReference), "key2")
             \o SelectSeq(d, NoReference)
    ELSE d

\* Rule 3 without its drop_duplicates.
Rule3_NoDrop(d) == d

\* Rule 3: content hash, on all rows.
Rule3(d) == DropDuplicates(d, "key3")

deduplicate_dataframe(d) ==
    IF d = <<>> THEN d ELSE Rule3(Rule2(Rule1(d)))


-----------------------------------------------------------------------------
(* The store.  The tables are modelled by the meaning of the SQL the tools  *)
(* send: the transactions table has the columns of models.py plus the      *)
(* deleted_at, deletion_reason and notes columns that the management       *)
(* tools' SQL reads and writes, and every statement sent through           *)
(* execute_query runs and commits in a transaction of its own.             *)
(* Timestamps are values of the logical clock now; 0 is the NULL timestamp.*)

NULL == "<NULL>"
NullAccount == <<NULL>>

\* `str(x) if x else None` of prepare_transactions_for_db.
StrOrNone(x) == IF x = "" THEN NULL ELSE x
AccountOrNone(a) == IF a = <<>> THEN NullAccount ELSE a

\* float(row['Balance']) if pd.notna(row['Balance']) else None.  The ""
\* that normalize_csv writes when the file has no Balance column is not NA,
\* and float("") raises ValueError: BalanceRaises tells that case.
BalanceRaises(row) == row.Balance = ""
BalanceOrNone(row) == IF row.Balance = NaN THEN NULL ELSE row.Balance

\* prepare_transactions_for_db, for one row of the de-duplicated frame.
PrepareTransaction(row) ==
    [ date           |-> row.Date,
      description    |-> row.Description,
      amount         |-> row.Amount,
      category       |-> NULL,
      vendor         |-> NULL,
      source         |-> StrOrNone(row.Source),
      txn_id         |-> StrOrNone(row.TxnId),
      reference      |-> StrOrNone(row.Reference),
      account        |-> AccountOrNone(row.Account),
      balance        |-> BalanceOrNone(row),
      original_hash  |-> row.OriginalHash,
      row_hash       |-> stable_rowhash(row.Date, row.Description, row.Amount),
      time_part      |-> StrOrNone(row.Time) ]

prepare_transactions_for_db(d) == [i \in 1..Len(d) |-> PrepareTransaction(d[i])]

\* A row of the transactions table: the inserted columns, the id the store
\* gives it and the columns the management tools maintain.
StoredRow(t, id) ==
    [ id |-> id, date |-> t.date, description |-> t.description, amount |-> t.amount,
      category |-> t.category, vendor |-> t.vendor, source |-> t.source,
      txn_id |-> t.txn_id, reference |-> t.reference, account |-> t.account,
      balance |-> t.balance, original_hash |-> t.original_hash,
      row_hash |-> t.row_hash, time_part |-> t.time_part,
      deleted_at |-> 0, deletion_reason |-> NULL, notes |-> <<>> ]

RowHashes(table) == {table[i].row_hash : i \in 1..Len(table)}

\* TransactionOperations.get_existing_row_hashes: the row_hash values of
\* the list that the table holds.
get_existing_row_hashes(table, row_hashes) == row_hashes \cap RowHashes(table)

\* UniqueConstraint('row_hash'): would adding the rows ts to the table
\* break it?
ViolatesUniqueRowHash(table, ts) ==
    \/ \E i \in 1..Len(ts) : ts[i].row_hash \in RowHashes(table)
    \/ \E i, j \in 1..Len(ts) : i # j /\ ts[i].row_hash = ts[j].row_hash

\* A batch insert outside one transaction: the rows before the first one
\* that violates the constraint stay in the table.
InsertUntilViolation(table, ts) ==
    LET F[i \in 0..Len(ts)] ==
            IF i = 0 THEN [raised |-> FALSE, table |-> table]
            ELSE IF F[i-1].raised \/ ts[i].row_hash \in RowHashes(F[i-1].table)
            THEN [raised |-> TRUE, table |-> F[i-1].table]
            ELSE [raised |-> FALSE,
                  table |-> Append(F[i-1].table,
                                   StoredRow(ts[i], Len(F[i-1].table) + 1))]
    IN F[Len(ts)]

\* A batch insert into a table without the constraint: every row is added.
InsertWithoutConstraint(table, ts) ==
    [ raised |-> FALSE,
      table |-> table \o [i \in 1..Len(ts) |-> StoredRow(ts[i], Len(table) + i)] ]

\* TransactionOperations.insert_transactions_batch: session.add_all and the
\* commit of get_session.  One transaction: a uniqueness violation rolls
\* all of it back and raises.
insert_transactions_batch(table, ts) ==
    IF ViolatesUniqueRowHash(table, ts)
    THEN [raised |-> TRUE, table |-> table]
    ELSE [raised |-> FALSE,
          table |-> table \o [i \in 1..Len(ts) |-> StoredRow(ts[i], Len(table) + i)]]

\* ProcessingLogOperations.start_operation: a new entry with status pending.
start_operation(log, operation_type) ==
    Append(log, [ operation_type |-> operation_type, status |-> "pending",
                  records_processed |-> 0, records_inserted |-> 0,
                  records_skipped |-> 0, error_count |-> 0, notes |-> "" ])

\* The completion that books every processed record as inserted.
CompleteAllInserted(log, log_id, processed, inserted, skipped, errors, status) ==
    [log EXCEPT ![log_id] =
        [ operation_type |-> @.operation_type, status |-> status,
          records_processed |-> processed, records_inserted |-> processed,
          records_skipped |-> skipped, error_count |-> errors, notes |-> @.notes ]]

\* ProcessingLogOperations.complete_operation on the entry log_id.
complete_operation(log, log_id, processed, inserted, skipped, errors, status) ==
    [log EXCEPT ![log_id] =
        [ operation_type |-> @.operation_type, status |-> status,
          records_processed |-> processed, records_inserted |-> inserted,
          records_skipped |-> skipped, error_count |-> errors, notes |-> @.notes ]]

-----------------------------------------------------------------------------
(* main() of csv_to_postgres.py, from start_operation on, as a function of  *)
(* the tables and the CSV files of the run.  The result carries the new     *)
(* tables and what the run reported.                                        *)

\* new_transactions: the prepared transactions whose row_hash the store
\* does not hold yet.
NewTransactions(table, transactions) ==
    LET existing == get_existing_row_hashes(table,
                        {transactions[i].row_hash : i \in 1..Len(transactions)})
    IN SelectSeq(transactions, LAMBDA t : t.row_hash \notin existing)

\* main from start_operation on.  lookup_fails: the store is unavailable
\* when get_existing_row_hashes asks it.
ImportRun(table, log, fs, lookup_fails) ==
    LET started      == start_operation(log, "csv_import_postgres")
        log_id       == Len(started)
        all_data     == NormalizedFiles(fs)
        error_files  == ErrorFiles(fs)
        combined_df  == Combine(all_data)
        deduped_df   == deduplicate_dataframe(combined_df)
        raises       == \E i \in 1..Len(deduped_df) : BalanceRaises(deduped_df[i])
        transactions == prepare_transactions_for_db(deduped_df)
        new          == NewTransactions(table, transactions)
        skipped      == Len(transactions) - Len(new)
        ins          == IF new = <<>> THEN [raised |-> FALSE, table |-> table]
                        ELSE insert_transactions_batch(table, new)
    IN  IF all_data = <<>>
        THEN \* "No data to import".
             [ status |-> "failed", table |-> table,
               log |-> complete_operation(started, log_id, 0, 0, 0, 0, "failed"),
               deduped |-> <<>>, selected |-> <<>>, skipped |-> 0 ]
        ELSE IF raises \/ lookup_fails
        THEN \* ValueError out of prepare_transactions_for_db, or the exception
             \* of get_existing_row_hashes: nothing catches it, main() dies.
             [ status |-> "crashed", table |-> table, log |-> started,
               deduped |-> deduped_df, selected |-> <<>>, skipped |-> 0 ]
        ELSE IF ins.raised
        THEN [ status |-> "failed", table |-> ins.table,
               log |-> complete_operation(started, log_id, Len(transactions), 0,
                                          skipped, error_files, "failed"),
               deduped |-> deduped_df, selected |-> new, skipped |-> skipped ]
        ELSE [ status |-> "completed", table |-> ins.table,
               log |-> complete_operation(started, log_id, Len(transactions), Len(new),
                                          skipped, error_files, "completed"),
               deduped |-> deduped_df, selected |-> new, skipped |-> skipped ]

\* A run with the store available throughout.
RunIngestion(table, log, fs) == ImportRun(table, log, fs, FALSE)

\* main of csv_to_postgres.py with its flags, on the CSV files fs found in
\* the input folder.  args.confirm is what the user types at the prompt of
\* --clear-transactions.  clear_raises: db.execute_update is a method of
\* the DatabaseManager of src/database.py only; on the one of the package
\* src/database the call raises AttributeError and main() dies.
main(table, log, fs, args, lookup_fails, clear_raises) ==
    IF args.clear_transactions /\ args.confirm # "yes"
    THEN [status |-> "cancelled", table |-> table, log |-> log]
    ELSE IF args.clear_transactions /\ clear_raises
    THEN [status |-> "crashed", table |-> table, log |-> log]
    ELSE IF fs = <<>>
    THEN [status |-> "no files", log |-> log,
          table |-> IF args.clear_transactions THEN <<>> ELSE table]
    ELSE IF args.dry_run
    THEN [status |-> "dry run", log |-> log,
          table |-> IF args.clear_transactions THEN <<>> ELSE table]
    ELSE ImportRun(IF args.clear_transactions THEN <<>> ELSE table,
                   log, fs, lookup_fails)

-----------------------------------------------------------------------------
(* main() of csv_to_raw.py: the same de-duplication into the "Raw Data"     *)
(* sheet of an Excel workbook.  The sheet is the sequence of its rows.      *)

EmptyAsNaN(cell) == IF cell = "" THEN NaN ELSE cell

\* pd.read_excel of the sheet: a cell that holds the empty string comes
\* back as the missing cell; the index was not written (index=False).
read_excel(sheet) ==
    [i \in 1..Len(sheet) |->
        [sheet[i] EXCEPT !.Date = EmptyAsNaN(@), !.Description = EmptyAsNaN(@),
                         !.Source = EmptyAsNaN(@), !.TxnId = EmptyAsNaN(@),
                         !.Reference = EmptyAsNaN(@), !.Time = EmptyAsNaN(@),
                         !.Account = IF @ = <<>> THEN NaNAccount ELSE @,
                         !.Balance = EmptyAsNaN(@)]]

\* DataFrame.to_excel(index=False): the rows without their index.
to_excel(d) == [i \in 1..Len(d) |-> [d[i] EXCEPT !.Line = 0]]

\* pd.concat([existing_df, deduped_df], ignore_index=True).
ConcatFrames(a, b) ==
    [i \in 1..(Len(a) + Len(b)) |->
        [(a \o b)[i] EXCEPT !.Line = i]]

\* main of csv_to_raw.py on the CSV files fs of the input folder, the
\* workbook being readable and writable.  No statement of it reads an
\* answer from the user: --clear-raw takes effect as it is given.
csv_to_raw_main(sheet, fs, args) ==
    IF fs = <<>> THEN [status |-> "no files", sheet |-> sheet]
    ELSE IF args.dry_run THEN [status |-> "dry run", sheet |-> sheet]
    ELSE IF NormalizedFiles(fs) = <<>> THEN [status |-> "no data", sheet |-> sheet]
    ELSE [ status |-> "written",
           sheet  |-> to_excel(
               IF ~args.clear_raw
               THEN deduplicate_dataframe(
                        ConcatFrames(read_excel(sheet),
                                     deduplicate_dataframe(Combine(NormalizedFiles(fs)))))
               ELSE deduplicate_dataframe(Combine(NormalizedFiles(fs)))) ]

-----------------------------------------------------------------------------
(* ManagementTools.stage_duplicates_for_review.                            *)

\* datetime.now().date() of the scans, as a day ordinal (2024-01-10).
Today == 10

\* str.lower() of a description.
Lower(d) ==
    CASE d = "COFFEE SHOP #102" -> "coffee shop #102"
      [] d = "Coffee Shop #102" -> "coffee shop #102"
      [] d = "ACME HARDWARE" -> "acme hardware"
      [] OTHER -> d

Abs(x) == IF x < 0 THEN 0 - x ELSE x

Truthy(x) == x # NULL /\ x # ""

HighConfidence == 90

\* f"Same Description and Amount, {date_diff} days apart".
ReasonDescription(date_diff) ==
    CASE date_diff = 0 -> "Same Description and Amount, 0 days apart"
      [] date_diff = 1 -> "Same Description and Amount, 1 days apart"
      [] date_diff = 2 -> "Same Description and Amount, 2 days apart"
      [] OTHER         -> "Same Description and Amount, 3 days apart"

\* f"Same Vendor and Amount, {date_diff} days apart".
ReasonVendor(date_diff) ==
    CASE date_diff = 0 -> "Same Vendor and Amount, 0 days apart"
      [] date_diff = 1 -> "Same Vendor and Amount, 1 days apart"
      [] OTHER         -> "Same Vendor and Amount, 2 days apart"

\* The duplicate criteria of the scan for one pair, in the order of the
\* if/elif chain: [is_duplicate, similarity_score (in hundredths), reason].
\* amount_tolerance is in cents.
DuplicateCriteria(tx1, tx2, amount_tolerance) ==
    LET date_diff   == Abs(DayOf(tx1.date) - DayOf(tx2.date))
        amount_diff == Abs(tx1.amount - tx2.amount)
        description_match == Lower(tx1.description) = Lower(tx2.description)
    IN  IF /\ Truthy(tx1.txn_id) /\ Truthy(tx2.txn_id)
           /\ tx1.txn_id = tx2.txn_id
           /\ tx1.account = tx2.account
        THEN [is_duplicate |-> TRUE, similarity_score |-> 100,
              reason |-> "Same TxnId and Account"]
        ELSE IF /\ Truthy(tx1.reference) /\ Truthy(tx2.reference)
                /\ tx1.reference = tx2.reference
                /\ date_diff <= 1 /\ amount_diff <= amount_tolerance
        THEN [is_duplicate |-> TRUE, similarity_score |-> 95,
              reason |-> "Same Reference, Date, and Amount"]
        ELSE IF description_match /\ amount_diff <= amount_tolerance /\ date_diff <= 3
        THEN [is_duplicate |-> TRUE,
              similarity_score |-> IF date_diff = 0 THEN 85 ELSE 75,
              reason |-> ReasonDescription(date_diff)]
        ELSE IF /\ Truthy(tx1.vendor) /\ Truthy(tx2.vendor)
                /\ Lower(tx1.vendor) = Lower(tx2.vendor)
                /\ amount_diff <= amount_tolerance /\ date_diff <= 2
        THEN [is_duplicate |-> TRUE, similarity_score |-> 80,
              reason |-> ReasonVendor(date_diff)]
        ELSE [is_duplicate |-> FALSE, similarity_score |-> 0, reason |-> ""]

\* The pairs (i, j), i < j, of 1..n in the order of the two nested loops.
PairsInLoopOrder(n) ==
    LET F[i \in 0..n] ==
            IF i = 0 THEN <<>>
            ELSE F[i-1] \o [k \in 1..(n - i) |-> <<i, i + k>>]
    IN F[n]

\* The rows the scan's SELECT returns: in the window, not soft-deleted.
InWindow(t, days_back) ==
    /\ DayOf(t.date) >= Today - days_back
    /\ DayOf(t.date) <= Today
    /\ t.deleted_at = 0

\* The orders the SELECT may return them in: ORDER BY date DESC, amount;
\* the order of rows that tie on both is the store's choice.
ScanOrders(rows) ==
    { p \in [1..Len(rows) -> 1..Len(rows)] :
        /\ \A i, j \in 1..Len(rows) : i # j => p[i] # p[j]
        /\ \A i, j \in 1..Len(rows) : i < j =>
              \/ DayOf(rows[p[i]].date) > DayOf(rows[p[j]].date)
              \/ /\ DayOf(rows[p[i]].date) = DayOf(rows[p[j]].date)
                 /\ rows[p[i]].amount <= rows[p[j]].amount }

\* duplicate_groups of one scan over the rows in the order returned.
\* group_id n stands for the text "DUP_000n".
DuplicateGroups(transactions, amount_tolerance) ==
    LET pairs == PairsInLoopOrder(Len(transactions))
        crit(pr) == DuplicateCriteria(transactions[pr[1]], transactions[pr[2]],
                                      amount_tolerance)
        hits == SelectSeq(pairs, LAMBDA pr : crit(pr).is_duplicate)
    IN [k \in 1..Len(hits) |->
          [ group_id |-> k,
            transactions |-> <<transactions[hits[k][1]], transactions[hits[k][2]]>>,
            similarity_score |-> crit(hits[k]).similarity_score,
            reason |-> crit(hits[k]).reason ]]

\* _stage_duplicate_group: one duplicate_review row per transaction of the
\* group, reviewed = False.
StageGroupRows(group_id, transactions, similarity_score, notes) ==
    [i \in 1..Len(transactions) |->
        [ group_id |-> group_id, transaction_id |-> transactions[i].id,
          similarity_score |-> similarity_score, notes |-> notes,
          reviewed |-> FALSE, action_taken |-> NULL, reviewed_by |-> NULL,
          reviewed_at |-> 0 ]]

RECURSIVE Flatten(_)
Flatten(ss) == IF ss = <<>> THEN <<>> ELSE Head(ss) \o Flatten(Tail(ss))

\* Is the group staged inside the detection loop (auto-staging)?
AutoStaged(params, group) ==
    params.auto_stage /\ group.similarity_score >= HighConfidence

\* The rows one scan adds to duplicate_review: the auto-staged groups, as
\* the loop meets them, then the others.
StagedRows(params, groups) ==
    LET auto   == SelectSeq(groups, LAMBDA g : AutoStaged(params, g))
        manual == SelectSeq(groups, LAMBDA g : ~AutoStaged(params, g))
    IN Flatten([k \in 1..Len(auto) |->
                   StageGroupRows(auto[k].group_id, auto[k].transactions,
                                  auto[k].similarity_score,
                                  <<"Auto-staged: ", auto[k].reason>>)])
       \o Flatten([k \in 1..Len(manual) |->
                   StageGroupRows(manual[k].group_id, manual[k].transactions,
                                  manual[k].similarity_score,
                                  <<manual[k].reason>>)])

\* DELETE FROM duplicate_review WHERE reviewed = false.
ClearUnreviewed(reviews) == SelectSeq(reviews, LAMBDA r : r.reviewed)

-----------------------------------------------------------------------------
(* ManagementTools.review_duplicate.                                       *)

valid_actions == {"keep_both", "delete_duplicate", "merge", "ignore"}

HasId(table, id) == \E i \in 1..Len(table) : table[i].id = id

\* group_query: the unreviewed duplicate_review rows of the group, joined
\* with their transactions.
GroupTransactions(table, reviews, group_id) ==
    SelectSeq(reviews, LAMBDA r : /\ r.group_id = group_id
                                  /\ ~r.reviewed
                                  /\ HasId(table, r.transaction_id))

\* The soft delete of the review without its "other than the kept one".
SoftDeleteAllOfGroup(table, ids, keep_transaction_id, at) ==
    [i \in 1..Len(table) |->
        IF table[i].id \in ids
        THEN [table[i] EXCEPT !.deleted_at = at,
                              !.deletion_reason = "duplicate_review",
                              !.notes = @ \o <<"Duplicate of transaction ",
                                               keep_transaction_id>>]
        ELSE table[i]]

\* delete_query for every transaction of the group other than the kept one:
\* UPDATE transactions SET deleted_at = NOW(), deletion_reason = ..., notes = ...
SoftDeleteOthers(table, ids, keep_transaction_id, at) ==
    [i \in 1..Len(table) |->
        IF table[i].id \in ids /\ table[i].id # keep_transaction_id
        THEN [table[i] EXCEPT !.deleted_at = at,
                              !.deletion_reason = "duplicate_review",
                              !.notes = @ \o <<"Duplicate of transaction ",
                                               keep_transaction_id>>]
        ELSE table[i]]

\* The review UPDATE that records a fixed action whatever was asked.
MarkReviewedAsKeepBoth(reviews, params, at) ==
    [i \in 1..Len(reviews) |->
        IF reviews[i].group_id = params.group_id
        THEN [reviews[i] EXCEPT !.reviewed = TRUE, !.action_taken = "keep_both",
                                !.reviewed_by = "mcp_user", !.reviewed_at = at]
        ELSE reviews[i]]

\* update_query: UPDATE duplicate_review SET reviewed = true, action_taken,
\* reviewed_by, reviewed_at = NOW(), notes = notes || ... WHERE group_id = ...
MarkReviewed(reviews, params, at) ==
    [i \in 1..Len(reviews) |->
        IF reviews[i].group_id = params.group_id
        THEN [reviews[i] EXCEPT
                 !.reviewed = TRUE,
                 !.action_taken = params.action,
                 !.reviewed_by = "mcp_user",
                 !.reviewed_at = at,
                 !.notes = @ \o (IF params.notes # ""
                                 THEN <<"User decision: ", params.notes>>
                                 ELSE <<"Action: ", params.action>>)]
        ELSE reviews[i]]

\* log_query: the processing_log row of a review.
ReviewLogRow(params, n) ==
    [ operation_type |-> "duplicate_review", status |-> "completed",
      records_processed |-> n, records_inserted |-> 0, records_skipped |-> 0,
      error_count |-> 0, notes |-> params.action ]

\* The validation of review_duplicate that accepts any action name.
RejectionNoActionCheck(table, reviews, params) ==
    LET group_transactions == GroupTransactions(table, reviews, params.group_id)
        group_tx_ids == {group_transactions[i].transaction_id :
                            i \in 1..Len(group_transactions)}
    IN  IF group_transactions = <<>> THEN "No pending review found"
        ELSE IF Len(group_transactions) < 2 THEN "Group has too few transactions"
        ELSE IF params.action = "delete_duplicate" /\ params.keep_transaction_id = 0
        THEN "keep_transaction_id is required"
        ELSE IF /\ params.action = "delete_duplicate"
                /\ params.keep_transaction_id \notin group_tx_ids
        THEN "Transaction ID is not in group"
        ELSE ""

\* The early returns of review_duplicate, in the order of the code: the
\* reason returned, or "" when the call goes on to act.
\* keep_transaction_id 0 stands for None (`not 0` is true as well).
Rejection(table, reviews, params) ==
    LET group_transactions == GroupTransactions(table, reviews, params.group_id)
        group_tx_ids == {group_transactions[i].transaction_id :
                            i \in 1..Len(group_transactions)}
    IN  IF group_transactions = <<>> THEN "No pending review found"
        ELSE IF Len(group_transactions) < 2 THEN "Group has too few transactions"
        ELSE IF params.action \notin valid_actions THEN "Invalid action"
        ELSE IF params.action = "delete_duplicate" /\ params.keep_transaction_id = 0
        THEN "keep_transaction_id is required"
        ELSE IF /\ params.action = "delete_duplicate"
                /\ params.keep_transaction_id \notin group_tx_ids
        THEN "Transaction ID is not in group"
        ELSE ""

\* The head of the response of a review that went through.
Reviewed == "Reviewed duplicate group"

\* review_duplicate: the tables after the call and what it returned.
\* log_fails: the store rejects the INSERT into processing_log; the two
\* statements before it have committed by then.
review_duplicate(table, reviews, log, params, at, log_fails) ==
    LET group_transactions == GroupTransactions(table, reviews, params.group_id)
        group_tx_ids == {group_transactions[i].transaction_id :
                            i \in 1..Len(group_transactions)}
        reason    == Rejection(table, reviews, params)
        table2    == IF params.action = "delete_duplicate"
                     THEN SoftDeleteOthers(table, group_tx_ids,
                                           params.keep_transaction_id, at)
                     ELSE table
        reviews2  == MarkReviewed(reviews, params, at)
    IN  IF reason # ""
        THEN [result |-> reason, table |-> table, reviews |-> reviews, log |-> log]
        ELSE IF log_fails
        THEN [result |-> "Error reviewing duplicate", table |-> table2,
              reviews |-> reviews2, log |-> log]
        ELSE [result |-> Reviewed, table |-> table2,
              reviews |-> reviews2,
              log |-> Append(log, ReviewLogRow(params, Len(group_transactions)))]

-----------------------------------------------------------------------------
(* ManagementTools.delete_transaction.                                     *)

\* tx_query: the transaction with the id, if it is not soft-deleted.
LiveTransaction(table, transaction_id) ==
    SelectSeq(table, LAMBDA t : t.id = transaction_id /\ t.deleted_at = 0)

\* duplicate_review.transaction_id REFERENCES transactions(id): the DELETE
\* of a transaction that a duplicate_review row points to is refused.
ViolatesForeignKey(reviews, transaction_id) ==
    \E i \in 1..Len(reviews) : reviews[i].transaction_id = transaction_id

\* DELETE FROM transactions WHERE id = ...
DeleteRow(table, transaction_id) ==
    SelectSeq(table, LAMBDA t : t.id # transaction_id)

\* The default path without its UPDATE: the row is removed all the same.
SoftDeleteRemovesRow(table, params, at) == DeleteRow(table, params.transaction_id)

\* update_query of the default path: UPDATE transactions SET deleted_at =
\* NOW(), deletion_reason = reason, notes = notes || 'Deleted via MCP: ...'.
SoftDelete(table, params, at) ==
    [i \in 1..Len(table) |->
        IF table[i].id = params.transaction_id
        THEN [table[i] EXCEPT !.deleted_at = at,
                              !.deletion_reason = params.reason,
                              !.notes = @ \o <<"Deleted via MCP: ", params.reason>>]
        ELSE table[i]]

\* log_query: the processing_log row of a deletion.
DeletionLogRow(params) ==
    [ operation_type |-> "transaction_deletion", status |-> "completed",
      records_processed |-> 1, records_inserted |-> 0, records_skipped |-> 0,
      error_count |-> 0, notes |-> <<"Permanent: ", params.permanent>> ]

SoftDeleted == "soft deleted"
PermanentlyDeleted == "permanently deleted"

\* delete_transaction: the tables after the call and what it returned.
delete_transaction(table, reviews, log, params, at) ==
    IF LiveTransaction(table, params.transaction_id) = <<>>
    THEN [result |-> "not found or already deleted", table |-> table, log |-> log]
    ELSE IF params.permanent /\ ViolatesForeignKey(reviews, params.transaction_id)
    THEN [result |-> "Error deleting transaction", table |-> table, log |-> log]
    ELSE IF params.permanent
    THEN [result |-> PermanentlyDeleted,
          table |-> DeleteRow(table, params.transaction_id),
          log |-> Append(log, DeletionLogRow(params))]
    ELSE [result |-> SoftDeleted,
          table |-> SoftDelete(table, params, at),
          log |-> Append(log, DeletionLogRow(params))]

-----------------------------------------------------------------------------
(* AI categorization: bookkeeping_helper.py (Excel workbook) and            *)
(* bookkeeping_helper_postgres.py (the store).  A reply of the service to   *)
(* one call is [timeouts |-> how many attempts in a row end in ReadTimeout, *)
(* kind |-> how the attempt after them ends, rows |-> the "rows" of its     *)
(* JSON when that attempt gets an answer].  An entry of rows is [rowhash,   *)
(* suggested_category]; NoKey stands for an entry without the key and NULL  *)
(* for a JSON null.  The entries carry no vendor, notes, date or amount     *)
(* key, so the tools fall back to the values of the row for those.          *)

CATEGORIES ==
    { "Groceries", "Dining", "Utilities", "Subscriptions", "Transportation",
      "Housing", "Healthcare", "Insurance", "Income", "Shopping", "Misc" }

max_retries == 3

NoKey == "<no key>"

\* `pat in dlow` for the patterns and descriptions of the model.
Contains(text, pat) == <<text, pat>> \in { <<"coffee shop #102", "coffee shop">> }

\* The first rule whose pattern occurs in the lower-cased description, 0
\* when there is none.
FirstMatch(mappings, vendor_name) ==
    LET hits == {i \in 1..Len(mappings) :
                    Contains(Lower(vendor_name), Lower(mappings[i].VendorPattern))}
    IN IF hits = {} THEN 0 ELSE CHOOSE i \in hits : \A j \in hits : i <= j

\* VendorMappingOperations.find_category_for_vendor, and the inner loop of
\* apply_vendor_map: the category of the first rule whose pattern occurs in
\* the lower-cased description, NULL when there is none.
find_category_for_vendor(mappings, vendor_name) ==
    IF FirstMatch(mappings, vendor_name) = 0 THEN NULL
    ELSE mappings[FirstMatch(mappings, vendor_name)].Category

\* " ".join(w.capitalize() for w in pat.split()) of apply_vendor_map.
Capitalized(pat) == CASE pat = "coffee shop" -> "Coffee Shop" [] OTHER -> pat

\* _clean_vendor_name: the description without store numbers and company
\* suffixes.
clean_vendor_name(description) ==
    CASE description = "COFFEE SHOP #102" -> "COFFEE SHOP" [] OTHER -> description

\* call_openai_chat of bookkeeping_helper.py: up to max_retries attempts.
\* ReadTimeout is retried after a sleep of 5 seconds and gives [] after the
\* last attempt; a response that does not parse gives [] at once; HTTPError
\* and any other exception (ConnectionError) are raised again.
call_openai_chat(reply) ==
    IF reply.timeouts >= max_retries
    THEN [raised |-> FALSE, result |-> <<>>, attempts |-> max_retries]
    ELSE [ raised   |-> reply.kind \in {"HTTPError", "ConnectionError"},
           result   |-> IF reply.kind = "ok" THEN reply.rows ELSE <<>>,
           attempts |-> reply.timeouts + 1 ]

\* call_openai_api of bookkeeping_helper_postgres.py: one attempt; every
\* failure of it gives [].
call_openai_api(reply) ==
    [ raised   |-> FALSE,
      result   |-> IF reply.timeouts = 0 /\ reply.kind = "ok" THEN reply.rows ELSE <<>>,
      attempts |-> 1 ]

\* by_hash / openai_lookup: the last entry of the result with the rowhash,
\* <<>> when there is none.
EntryFor(result, rowhash) ==
    LET hits == {i \in 1..Len(result) : result[i].rowhash = rowhash}
    IN IF hits = {} THEN <<>>
       ELSE <<result[CHOOSE i \in hits : \A j \in hits : j <= i]>>

\* The row of out_rows for the row r of a chunk (main of
\* bookkeeping_helper.py, lines 265-286).
FallbackNote == "AI fallback: unmatched row"

OutRow(r, result) ==
    LET x == EntryFor(result, r.RowHash)
    IN [ date |-> r.Date, vendor |-> r.Description, amount |-> r.Amount,
         suggested_category |->
             IF x = <<>> THEN "Misc"
             ELSE IF x[1].suggested_category \in CATEGORIES
             THEN x[1].suggested_category ELSE "Misc",
         notes |-> IF x = <<>> THEN FallbackNote ELSE "",
         rowhash |-> r.RowHash ]

\* The loop over the chunks of records: replies[k] is the reply to the call
\* for chunk k.  An exception of a call ends main.
RECURSIVE CategorizeChunks(_, _, _)
CategorizeChunks(records, batch, replies) ==
    IF records = <<>> THEN [raised |-> FALSE, rows |-> <<>>, attempts |-> 0]
    ELSE LET chunk == FirstN(records, batch)
             call  == call_openai_chat(Head(replies))
             rest  == CategorizeChunks(SubSeq(records, Len(chunk) + 1, Len(records)),
                                       batch, Tail(replies))
         IN IF call.raised
            THEN [raised |-> TRUE, rows |-> <<>>, attempts |-> call.attempts]
            ELSE [ raised |-> rest.raised,
                   rows   |-> [i \in 1..Len(chunk) |-> OutRow(chunk[i], call.result)]
                                 \o rest.rows,
                   attempts |-> IF rest.attempts > call.attempts THEN rest.attempts
                                ELSE call.attempts ]

\* df of main: the rows of Raw Data with their RowHash.
WithRowHash(raw) ==
    [i \in 1..Len(raw) |->
        [ Date |-> raw[i].Date, Description |-> raw[i].Description,
          Amount |-> raw[i].Amount,
          RowHash |-> stable_rowhash(raw[i].Date, raw[i].Description, raw[i].Amount) ]]

\* df_new: the rows whose RowHash Clean Data does not hold; df_ai: those of
\* them that no rule of VendorMap matches.
NewRows(raw, clean) ==
    SelectSeq(WithRowHash(raw),
              LAMBDA r : \A i \in 1..Len(clean) : clean[i].rowhash # r.RowHash)

RowsForAI(raw, clean, vendor_map) ==
    SelectSeq(NewRows(raw, clean),
              LAMBDA r : find_category_for_vendor(vendor_map, r.Description) = NULL)

MappedRows(raw, clean, vendor_map) ==
    LET df_mapped == SelectSeq(NewRows(raw, clean),
             LAMBDA r : find_category_for_vendor(vendor_map, r.Description) # NULL)
    IN [i \in 1..Len(df_mapped) |->
          [ date |-> df_mapped[i].Date,
            vendor |-> Capitalized(Lower(
                vendor_map[FirstMatch(vendor_map, df_mapped[i].Description)].VendorPattern)),
            amount |-> df_mapped[i].Amount,
            suggested_category |->
                find_category_for_vendor(vendor_map, df_mapped[i].Description),
            notes |-> "Mapped by VendorMap", rowhash |-> df_mapped[i].RowHash ]]

DryRunRows(df_ai) ==
    [i \in 1..Len(df_ai) |->
        [ date |-> df_ai[i].Date, vendor |-> df_ai[i].Description,
          amount |-> df_ai[i].Amount, suggested_category |-> "Misc",
          notes |-> "Dry-run (no API call)", rowhash |-> df_ai[i].RowHash ]]

\* write_clean_and_summary: Clean Data with the new rows appended and
\* drop_duplicates(subset=["RowHash"], keep="first").
write_clean_and_summary(clean, clean_rows) ==
    LET combined == clean \o clean_rows
    IN SubSeqAt(combined,
                {i \in 1..Len(combined) :
                    \A j \in 1..(i-1) : combined[j].rowhash # combined[i].rowhash})

\* main of bookkeeping_helper.py over the sheets Raw Data (not empty) and
\* Clean Data: the Clean Data it leaves and how it ended.
bookkeeping_helper_main(raw, clean, vendor_map, args, replies) ==
    IF NewRows(raw, clean) = <<>>
    THEN [status |-> "up to date", clean |-> clean, attempts |-> 0]
    ELSE IF args.dry_run
    THEN [ status |-> "written", attempts |-> 0,
           clean |-> write_clean_and_summary(clean,
                        MappedRows(raw, clean, vendor_map)
                           \o DryRunRows(RowsForAI(raw, clean, vendor_map))) ]
    ELSE LET ai == CategorizeChunks(RowsForAI(raw, clean, vendor_map),
                                    args.batch, replies)
         IN IF ai.raised
            THEN [status |-> "crashed", clean |-> clean, attempts |-> ai.attempts]
            ELSE [ status |-> "written", attempts |-> ai.attempts,
                   clean |-> write_clean_and_summary(clean,
                                MappedRows(raw, clean, vendor_map) \o ai.rows) ]

\* get_uncategorized_transactions: the positions of the rows without a
\* category, ORDER BY date DESC, id DESC.
Uncategorized(table) ==
    LET open == {i \in 1..Len(table) : table[i].category \in {NULL, ""}}
    IN CHOOSE s \in [1..Cardinality(open) -> open] :
          \A i, j \in 1..Cardinality(open) : i < j =>
              \/ DayOf(table[s[i]].date) > DayOf(table[s[j]].date)
              \/ /\ DayOf(table[s[i]].date) = DayOf(table[s[j]].date)
                 /\ table[s[i]].id > table[s[j]].id

\* suggested_category of one transaction of a batch after
\* apply_vendor_mappings and process_openai_response (which leaves the
\* batch as it is when the result is empty): NULL when nothing set it.
SuggestedCategory(t, mappings, result) ==
    LET mapped == find_category_for_vendor(mappings, t.description)
        x      == EntryFor(result, t.row_hash)
    IN IF mapped # NULL THEN mapped
       ELSE IF x = <<>> THEN NULL
       ELSE IF x[1].suggested_category = NoKey THEN "Misc"
       ELSE x[1].suggested_category

\* update_transactions_in_db for one batch: update_transaction_category on
\* the transactions of the batch that have a suggested_category.
UpdateBatch(table, ids, mappings, result) ==
    [i \in 1..Len(table) |->
        IF table[i].id \in ids /\ Truthy(SuggestedCategory(table[i], mappings, result))
        THEN [table[i] EXCEPT !.category = SuggestedCategory(table[i], mappings, result),
                              !.vendor = clean_vendor_name(table[i].description)]
        ELSE table[i]]

\* The loop over the batches of run_categorization: ids are the ids of the
\* uncategorized transactions in order, replies[k] the reply to the call of
\* batch k (not sent when the vendor mappings covered the whole batch).
RECURSIVE CategorizeBatches(_, _, _, _, _)
CategorizeBatches(table, ids, mappings, batch_size, replies) ==
    IF ids = <<>> THEN table
    ELSE LET batch == FirstN(ids, batch_size)
             inBatch == {batch[i] : i \in 1..Len(batch)}
             openai_batch == {i \in 1..Len(table) :
                                 /\ table[i].id \in inBatch
                                 /\ find_category_for_vendor(mappings,
                                        table[i].description) = NULL}
             result == IF openai_batch = {} THEN <<>>
                       ELSE call_openai_api(Head(replies)).result
         IN CategorizeBatches(UpdateBatch(table, inBatch, mappings, result),
                              SubSeq(ids, Len(batch) + 1, Len(ids)),
                              mappings, batch_size, Tail(replies))

\* BookkeepingHelperPostgres.run_categorization, the store being available:
\* the tables it leaves.  The entry of the processing log carries the
\* number of transactions processed.
run_categorization(table, log, mappings, batch_size, replies) ==
    LET started == start_operation(log, "ai_categorization_postgres")
        open    == Uncategorized(table)
        ids     == [i \in 1..Len(open) |-> table[open[i]].id]
    IN [ table |-> CategorizeBatches(table, ids, mappings, batch_size, replies),
         log   |-> complete_operation(started, Len(started), Len(ids), 0, 0, 0,
                                      "completed") ]

-----------------------------------------------------------------------------
(* The actions: an ingestion run, a scan, a review.                        *)

MaxRuns == 2
MaxReviews == 1

Count(log, operation_type) ==
    Cardinality({i \in 1..Len(log) : log[i].operation_type = operation_type})

\* What `last` says after a run of csv_to_postgres.py over the file f that
\* took the tables from (table, log) to the result run.  rerun: the run
\* before it, with nothing in between, was over the same file.
AfterRun(f, run, count_before, rerun) ==
    [ op |-> "ingest", status |-> run.status, file |-> f,
      skipped |-> run.skipped, count_before |-> count_before, rerun |-> rerun ]

\* One run of csv_to_postgres.py over the file f.
Ingest(f) ==
    /\ Count(procLog, "csv_import_postgres") < MaxRuns
    /\ LET run == RunIngestion(store, procLog, <<f>>)
       IN /\ store' = run.table
          /\ procLog' = run.log
          /\ last' = AfterRun(f, run, Len(store), last.op = "ingest" /\ last.file = f)
    /\ UNCHANGED <<csvFiles, df, deduped, pc, dupReview, now>>

\* One call of stage_duplicates_for_review(params); order is the order in
\* which the store returns the rows of the scan.
Stage(params) ==
    LET cleared == ClearUnreviewed(dupReview)
        rows    == SelectSeq(store, LAMBDA t : InWindow(t, params.days_back))
    IN \E order \in ScanOrders(rows) :
         LET transactions == [i \in 1..Len(rows) |-> rows[order[i]]]
             groups == DuplicateGroups(transactions, params.amount_tolerance)
         IN /\ dupReview' =
                  IF Len(transactions) < 2 THEN cleared
                  ELSE cleared \o StagedRows(params, groups)
            /\ last' = [ op |-> "stage",
                         result |-> IF Len(transactions) < 2 THEN "Need at least 2"
                                    ELSE IF groups = <<>> THEN "No potential duplicates"
                                    ELSE "Found",
                         groups |-> IF Len(transactions) < 2 THEN <<>> ELSE groups ]
            /\ UNCHANGED <<csvFiles, df, deduped, pc, store, procLog, now>>

\* One call of review_duplicate(params) that gets past the early returns
\* (a call that returns early writes nothing), among at most limit such
\* calls.  The clock moves on with it.
ReviewWithin(limit, params, log_fails) ==
    /\ now <= limit
    /\ Rejection(store, dupReview, params) = ""
    /\ LET r == review_duplicate(store, dupReview, procLog, params, now, log_fails)
       IN /\ store' = r.table
          /\ dupReview' = r.reviews
          /\ procLog' = r.log
          /\ last' = [ op |-> "review", result |-> r.result, params |-> params ]
          /\ now' = now + 1
    /\ UNCHANGED <<csvFiles, df, deduped, pc>>

Review(params, log_fails) == ReviewWithin(MaxReviews, params, log_fails)

MaxDeletes == 1

\* One call of delete_transaction(params) that deletes (a call that finds
\* no live transaction, or whose DELETE the store refuses, writes nothing).
Delete(params) ==
    /\ Count(procLog, "transaction_deletion") < MaxDeletes
    /\ LET r == delete_transaction(store, dupReview, procLog, params, now)
       IN /\ r.result \in {SoftDeleted, PermanentlyDeleted}
          /\ store' = r.table
          /\ procLog' = r.log
          /\ last' = [ op |-> "delete", result |-> r.result, params |-> params ]
          /\ now' = now + 1
    /\ UNCHANGED <<csvFiles, df, deduped, pc, dupReview>>

StageParams ==
    [ days_back : {30, 6}, amount_tolerance : {1}, auto_stage : BOOLEAN ]

\* The defaults of StageDuplicatesParams.
DefaultStageParams == [ days_back |-> 30, amount_tolerance |-> 1, auto_stage |-> TRUE ]

-----------------------------------------------------------------------------
(* Spec: ingestion runs into one store, and scans of it.                    *)

MaxFileRows == 2

\* The data rows of the files of Spec: one purchase on 2024-01-03, once
\* more with another balance or another transaction id, and once more six
\* days later.  A file has a Balance column only, or Transaction ID and
\* Account columns as well.
ImportRawRows(cols) ==
    { [ Date |-> k[1], Description |-> "COFFEE SHOP #102", Amount |-> "-4.50",
        TxnId |-> IF "TxnId" \in cols THEN k[2] ELSE NaN,
        Reference |-> NaN, Time |-> NaN,
        Account |-> IF "Account" \in cols THEN ACCT_1234 ELSE NaNAccount,
        Balance |-> IF "TxnId" \in cols THEN "100.00" ELSE k[3] ] :
        k \in { <<"2024-01-03", "T1", "100.00">>,
                <<"2024-01-03", "T2", "95.50">>,
                <<"2024-01-09", "T1", "100.00">> } }

ImportCols == { {"Balance"}, {"Balance", "TxnId", "Account"} }

Init ==
    /\ csvFiles = <<>>
    /\ df = <<>>
    /\ deduped = <<>>
    /\ pc = "none"
    /\ store = <<>>
    /\ dupReview = <<>>
    /\ procLog = <<>>
    /\ last = [op |-> "none"]
    /\ now = 1

IngestFile ==
    \E cols \in ImportCols : \E n \in 1..MaxFileRows :
        \E rows \in [1..n -> ImportRawRows(cols)] :
            Ingest([stem |-> "chk", cols |-> cols, missing |-> {}, rows |-> rows])

StageDuplicates == \E params \in StageParams : Stage(params)

Next == IngestFile \/ StageDuplicates

Spec == Init /\ [][Next]_vars

-----------------------------------------------------------------------------
(* SpecRun: runs of csv_to_postgres.py with their flags over folders of up  *)
(* to two files, some of them without a date or amount column or without   *)
(* a Balance column, with the store available or not at the lookup.        *)

\* The data rows of the files of SpecRun: one purchase on two days.
FolderRawRows ==
    { [ Date |-> d, Description |-> "COFFEE SHOP #102", Amount |-> "-4.50",
        TxnId |-> NaN, Reference |-> NaN, Time |-> NaN, Account |-> NaNAccount,
        Balance |-> "100.00" ] :
        d \in {"2024-01-03", "2024-01-09"} }

\* The headers: all columns found; no Balance column; no date column; no
\* amount shape.
FolderHeaders ==
    { [cols |-> {"Balance"}, missing |-> {}],
      [cols |-> {},          missing |-> {}],
      [cols |-> {"Balance"}, missing |-> {"Date"}],
      [cols |-> {"Balance"}, missing |-> {"Amount"}] }

\* The files a folder can hold under a name: one data row each.
FolderFiles(stem) ==
    { [stem |-> stem, cols |-> h.cols, missing |-> h.missing, rows |-> <<row>>] :
        h \in FolderHeaders, row \in FolderRawRows }

Stems == <<"chk", "visa">>

\* The folders: files with different names, in the order of the glob.
Folders ==
    UNION { { fs \in [1..n -> UNION {FolderFiles(Stems[k]) : k \in 1..n}] :
                \A i \in 1..n : fs[i].stem = Stems[i] } : n \in 0..Len(Stems) }

RunArgs ==
    { a \in [ dry_run : BOOLEAN, clear_transactions : BOOLEAN, confirm : {"yes", "no"} ] :
        ~a.clear_transactions => a.confirm = "no" }

\* The faults that can show in a run with the flags args: the lookup can
\* fail in a run that gets to it, the DELETE of --clear-transactions can
\* raise when it is sent.
RunFaults(args) ==
    { f \in [ lookup_fails : BOOLEAN, clear_raises : BOOLEAN ] :
        /\ f.clear_raises => (args.clear_transactions /\ args.confirm = "yes")
        /\ f.lookup_fails => (~args.dry_run /\ ~f.clear_raises
                                /\ (args.clear_transactions => args.confirm = "yes")) }

\* One run of main.
Run(fs, args, lookup_fails, clear_raises) ==
    /\ Count(procLog, "csv_import_postgres") < MaxRuns
    /\ LET r == main(store, procLog, fs, args, lookup_fails, clear_raises)
       IN /\ store' = r.table
          /\ procLog' = r.log
          /\ last' = [ op |-> "run", status |-> r.status, dry_run |-> args.dry_run,
                       lookup_fails |-> lookup_fails, count_before |-> Len(store) ]
    /\ UNCHANGED <<csvFiles, df, deduped, pc, dupReview, now>>

RunMain ==
    \E fs \in Folders : \E args \in RunArgs : \E f \in RunFaults(args) :
        Run(fs, args, f.lookup_fails, f.clear_raises)

NextRun == RunMain

SpecRun == Init /\ [][NextRun]_vars

-----------------------------------------------------------------------------
(* SpecClear: runs of the two ingestion tools with their clear flag.  The   *)
(* runs of csv_to_postgres.py work on store and procLog, the runs of        *)
(* csv_to_raw.py on the Raw Data sheet, held in df.                         *)

\* What is read at the prompt in a run that never prompts.
NoPrompt == "<no prompt>"

\* One run of main of csv_to_postgres.py; last keeps the flag and what the
\* user typed at its prompt.
ClearRun(fs, args, lookup_fails, clear_raises) ==
    /\ Count(procLog, "csv_import_postgres") < MaxRuns
    /\ LET r == main(store, procLog, fs, args, lookup_fails, clear_raises)
       IN /\ store' = r.table
          /\ procLog' = r.log
          /\ last' = [ op |-> "clear run", status |-> r.status,
                       clear |-> args.clear_transactions,
                       answer |-> IF args.clear_transactions THEN args.confirm
                                  ELSE NoPrompt,
                       count_before |-> Len(store) ]
    /\ UNCHANGED <<csvFiles, df, deduped, pc, dupReview, now>>

\* One run of main of csv_to_raw.py.
RawRun(fs, args) ==
    /\ now <= MaxRuns
    /\ LET r == csv_to_raw_main(df, fs, args)
       IN /\ df' = r.sheet
          /\ last' = [ op |-> "raw run", status |-> r.status,
                       clear |-> args.clear_raw, answer |-> NoPrompt,
                       count_before |-> Len(df) ]
    /\ now' = now + 1
    /\ UNCHANGED <<csvFiles, deduped, pc, store, dupReview, procLog>>

RawArgs == [ dry_run : BOOLEAN, clear_raw : BOOLEAN ]

\* The folders of SpecClear: those whose files have every column found.
ClearFolders ==
    { fs \in Folders :
        \A i \in 1..Len(fs) : fs[i].cols = {"Balance"} /\ fs[i].missing = {} }

ClearRunMain ==
    \E fs \in ClearFolders : \E args \in RunArgs : \E f \in RunFaults(args) :
        ClearRun(fs, args, f.lookup_fails, f.clear_raises)

RawRunMain == \E fs \in ClearFolders : \E args \in RawArgs : RawRun(fs, args)

NextClear == ClearRunMain \/ RawRunMain

SpecClear == Init /\ [][NextClear]_vars

-----------------------------------------------------------------------------
(* SpecCategorize: runs of the two categorization tools.  The runs of       *)
(* bookkeeping_helper_postgres.py work on store and procLog; the runs of    *)
(* bookkeeping_helper.py on a workbook whose Raw Data sheet is df and whose *)
(* Clean Data sheet is deduped.  Both start from the rows of one CSV file.  *)

\* The rows of the file: two purchases on one day.
CategorizeRawRows ==
    { [ Date |-> k[1], Description |-> k[2], Amount |-> "-4.50",
        TxnId |-> NaN, Reference |-> NaN, Time |-> NaN, Account |-> NaNAccount,
        Balance |-> "100.00" ] :
        k \in { <<"2024-01-03", "COFFEE SHOP #102">>,
                <<"2024-01-03", "ACME HARDWARE">> } }

InitCategorize ==
    /\ \E n \in 1..MaxFileRows : \E rows \in [1..n -> CategorizeRawRows] :
          LET f   == [stem |-> "chk", cols |-> {"Balance"}, missing |-> {}, rows |-> rows]
              run == RunIngestion(<<>>, <<>>, <<f>>)
          IN /\ store = run.table
             /\ procLog = run.log
             /\ df = to_excel(run.deduped)
    /\ csvFiles = <<>>
    /\ deduped = <<>>
    /\ pc = "none"
    /\ dupReview = <<>>
    /\ last = [op |-> "none"]
    /\ now = 1

\* The VendorMap sheet / the vendor_mappings table: empty, or one rule.
VendorMaps ==
    { <<>>, << [VendorPattern |-> "coffee shop", Category |-> "Dining"] >> }

\* What the service says about a row: a category of the list, one outside
\* it, an entry without the key, a null, or no entry at all.
Absent == "<absent>"
Answers == {"Dining", "Lunch", NoKey, NULL, Absent}

\* How the attempt after the timeouts ends.
ReplyKinds == {"ok", "HTTPError", "ConnectionError", "Malformed"}

\* The "rows" of an answer of the service about the rows with the hashes
\* in order, answers[h] being what it says about h.
AnswerRows(hashes, answers) ==
    LET said == SelectSeq(hashes, LAMBDA h : answers[h] # Absent)
    IN [i \in 1..Len(said) |->
           [rowhash |-> said[i], suggested_category |-> answers[said[i]]]]

\* The replies to the calls of one run: one per batch.
RepliesOf(hashes, answers, ends) ==
    [k \in 1..Len(ends) |->
        [ timeouts |-> ends[k].timeouts, kind |-> ends[k].kind,
          rows |-> AnswerRows(hashes, answers) ]]

\* The failures of the service in the calls made (the calls with the
\* numbers in made), told by kind.
FailuresMet(made, replies) ==
    {replies[k].kind : k \in {j \in made : replies[j].timeouts < max_retries
                                              /\ replies[j].kind # "ok"}}
       \cup {"ReadTimeout" : k \in {j \in made : replies[j].timeouts > 0}}

\* ceil(n / batch): the number of batches.
Batches(n, batch) == (n + batch - 1) \div batch

MaxCategorizeRuns == 1

\* One run of bookkeeping_helper.py.  A call is made for every chunk up to
\* the first one whose call raises.
CategorizeExcel(vendor_map, args, answers, ends) ==
    /\ now <= MaxCategorizeRuns
    /\ LET df_ai   == RowsForAI(df, deduped, vendor_map)
           hashes  == [i \in 1..Len(df_ai) |-> df_ai[i].RowHash]
           replies == RepliesOf(hashes, answers, ends)
           r == bookkeeping_helper_main(df, deduped, vendor_map, args, replies)
       IN /\ deduped' = r.clean
          /\ last' = [ op |-> "categorize", tool |-> "excel", status |-> r.status,
                       handed |-> IF args.dry_run THEN {}
                                  ELSE {hashes[i] : i \in 1..Len(hashes)},
                       unmatched |->
                           IF args.dry_run THEN {}
                           ELSE {hashes[i] : i \in {j \in 1..Len(hashes) :
                                    EntryFor(call_openai_chat(
                                        replies[Batches(j, args.batch)]).result,
                                        hashes[j]) = <<>>}},
                       attempts |-> r.attempts,
                       failures |->
                           IF args.dry_run THEN {}
                           ELSE FailuresMet(
                                  {k \in 1..Batches(Len(hashes), args.batch) :
                                      \A j \in 1..(k-1) :
                                          ~call_openai_chat(replies[j]).raised},
                                  replies) ]
    /\ now' = now + 1
    /\ UNCHANGED <<csvFiles, df, pc, store, dupReview, procLog>>

\* The number of the batch of run_categorization that the transaction with
\* the row_hash is in.
BatchOf(table, row_hash, batch_size) ==
    Batches(CHOOSE k \in 1..Len(Uncategorized(table)) :
                table[Uncategorized(table)[k]].row_hash = row_hash, batch_size)

\* One run of bookkeeping_helper_postgres.py.  A call is made for every
\* batch that the vendor mappings do not cover.
CategorizePostgres(mappings, batch_size, answers, ends) ==
    /\ now <= MaxCategorizeRuns
    /\ LET open    == Uncategorized(store)
           handed  == SelectSeq([i \in 1..Len(open) |-> store[open[i]]],
                          LAMBDA t : find_category_for_vendor(mappings, t.description) = NULL)
           hashes  == [i \in 1..Len(handed) |-> handed[i].row_hash]
           replies == RepliesOf(hashes, answers, ends)
           r == run_categorization(store, procLog, mappings, batch_size, replies)
       IN /\ store' = r.table
          /\ procLog' = r.log
          /\ last' = [ op |-> "categorize", tool |-> "postgres", status |-> "completed",
                       handed |-> {hashes[i] : i \in 1..Len(hashes)},
                       unmatched |->
                           {hashes[i] : i \in {j \in 1..Len(hashes) :
                               EntryFor(call_openai_api(replies[
                                   BatchOf(store, hashes[j], batch_size)]).result,
                                   hashes[j]) = <<>>}},
                       attempts |-> IF hashes = <<>> THEN 0 ELSE 1,
                       failures |->
                           FailuresMet({BatchOf(store, hashes[j], batch_size) :
                                           j \in 1..Len(hashes)}, replies) ]
    /\ now' = now + 1
    /\ UNCHANGED <<csvFiles, df, deduped, pc, dupReview>>

CategorizeArgs == [ dry_run : BOOLEAN, batch : 1..MaxFileRows ]

\* The ends of the calls of a run (the kind of the attempt after
\* max_retries timeouts is never seen).
CallEnds ==
    { e \in [ timeouts : 0..max_retries, kind : ReplyKinds ] :
        e.timeouts = max_retries => e.kind = "ok" }

\* The hashes of the rows that a run with the rules vendor_map hands to the
\* service: of the workbook, of the store.
ExcelHashes(vendor_map) ==
    {stable_rowhash(df[i].Date, df[i].Description, df[i].Amount) :
        i \in {j \in 1..Len(df) :
                 find_category_for_vendor(vendor_map, df[j].Description) = NULL}}

StoreHashes(mappings) ==
    {store[i].row_hash :
        i \in {j \in 1..Len(store) :
                 find_category_for_vendor(mappings, store[j].description) = NULL}}

RunExcelHelper ==
    \E vendor_map \in VendorMaps : \E args \in CategorizeArgs :
      \E answers \in [ExcelHashes(vendor_map) -> Answers] :
        \E ends \in [1..Batches(MaxFileRows, args.batch) -> CallEnds] :
            CategorizeExcel(vendor_map, args, answers, ends)

RunPostgresHelper ==
    \E mappings \in VendorMaps : \E batch_size \in 1..MaxFileRows :
      \E answers \in [StoreHashes(mappings) -> Answers] :
        \E ends \in [1..Batches(MaxFileRows, batch_size) -> CallEnds] :
            CategorizePostgres(mappings, batch_size, answers, ends)

NextCategorize == RunExcelHelper \/ RunPostgresHelper

SpecCategorize == InitCategorize /\ [][NextCategorize]_vars

-----------------------------------------------------------------------------
(* SpecInterleave: two runs of csv_to_postgres.py in flight against one     *)
(* store.  A run is its transactions against the store, each committed on   *)
(* its own: start_operation, the lookup of the existing row hashes, the     *)
(* batch insert, complete_operation.  pc[r] is the step run r takes next,   *)
(* last[r] what run r holds in its local variables.  Every file has a date, *)
(* an amount and a Balance column.                                          *)

Importers == {1, 2}

InitInterleave ==
    /\ csvFiles = <<>>
    /\ df = <<>>
    /\ deduped = <<>>
    /\ pc = [r \in Importers |-> "idle"]
    /\ store = <<>>
    /\ dupReview = <<>>
    /\ procLog = <<>>
    /\ last = [r \in Importers |-> [status |-> "none"]]
    /\ now = 1

\* Run r starts over the file f: the processing-log entry, then the rows of
\* the file normalized, de-duplicated and prepared.
ImportStart(r, f) ==
    /\ pc[r] = "idle"
    /\ procLog' = start_operation(procLog, "csv_import_postgres")
    /\ last' = [last EXCEPT ![r] =
                   [ status |-> "pending", log_id |-> Len(procLog) + 1,
                     transactions |-> prepare_transactions_for_db(
                         deduplicate_dataframe(Combine(<<f>>))),
                     new |-> <<>> ]]
    /\ pc' = [pc EXCEPT ![r] = "lookup"]
    /\ UNCHANGED <<csvFiles, df, deduped, store, dupReview, now>>

\* get_existing_row_hashes and the filter that gives new_transactions.
ImportLookup(r) ==
    /\ pc[r] = "lookup"
    /\ last' = [last EXCEPT ![r].new = NewTransactions(store, last[r].transactions)]
    /\ pc' = [pc EXCEPT ![r] = "insert"]
    /\ UNCHANGED <<csvFiles, df, deduped, store, dupReview, procLog, now>>

\* insert_transactions_batch(new_transactions), when there are any.
ImportInsert(r) ==
    /\ pc[r] = "insert"
    /\ LET ins == IF last[r].new = <<>> THEN [raised |-> FALSE, table |-> store]
                  ELSE insert_transactions_batch(store, last[r].new)
       IN /\ store' = ins.table
          /\ last' = [last EXCEPT ![r].status =
                         IF ins.raised THEN "failed" ELSE "completed"]
    /\ pc' = [pc EXCEPT ![r] = "complete"]
    /\ UNCHANGED <<csvFiles, df, deduped, dupReview, procLog, now>>

\* complete_operation, after the insert or in its except clause.
ImportComplete(r) ==
    /\ pc[r] = "complete"
    /\ procLog' = complete_operation(procLog, last[r].log_id,
                      Len(last[r].transactions),
                      IF last[r].status = "failed" THEN 0 ELSE Len(last[r].new),
                      Len(last[r].transactions) - Len(last[r].new), 0,
                      last[r].status)
    /\ pc' = [pc EXCEPT ![r] = "done"]
    /\ UNCHANGED <<csvFiles, df, deduped, store, dupReview, last, now>>

ImportStarts ==
    \E r \in Importers : \E n \in 1..MaxFileRows :
        \E rows \in [1..n -> ImportRawRows({"Balance"})] :
            ImportStart(r, [stem |-> "chk", cols |-> {"Balance"}, missing |-> {},
                            rows |-> rows])

ImportLookups == \E r \in Importers : ImportLookup(r)
ImportInserts == \E r \in Importers : ImportInsert(r)
ImportCompletes == \E r \in Importers : ImportComplete(r)

NextInterleave == ImportStarts \/ ImportLookups \/ ImportInserts \/ ImportCompletes

SpecInterleave == InitInterleave /\ [][NextInterleave]_vars

-----------------------------------------------------------------------------
(* SpecAccount: normalize_account as a function of the value.  Init draws   *)
(* the value, the action applies the code; last holds the value and the     *)
(* result.                                                                  *)

MaxPad == 13
MaxSuffix == 5

\* k letters.
Pad(k) == [i \in 1..k |-> "X"]

\* The values: up to MaxPad letters followed by up to MaxSuffix characters
\* that are digits, dashes or blanks.
AccountValues ==
    { Pad(k) \o t :
        k \in 0..MaxPad,
        t \in UNION { [1..n -> {"1", "2", "-", " "}] : n \in 0..MaxSuffix } }

InitAccount ==
    /\ csvFiles = <<>>
    /\ df = <<>>
    /\ deduped = <<>>
    /\ pc = "load"
    /\ store = <<>>
    /\ dupReview = <<>>
    /\ procLog = <<>>
    /\ \E val \in AccountValues : last = [op |-> "account", val |-> val, out |-> <<>>]
    /\ now = 1

NormalizeAccount ==
    /\ pc = "load"
    /\ last' = [last EXCEPT !.out = normalize_account(last.val)]
    /\ pc' = "normalized"
    /\ UNCHANGED <<csvFiles, df, deduped, store, dupReview, procLog, now>>

NextAccount == NormalizeAccount

SpecAccount == InitAccount /\ [][NextAccount]_vars

-----------------------------------------------------------------------------
(* Column detection.  df.columns is a sequence of distinct column names, a  *)
(* candidate list a sequence of aliases; None is NULL.                      *)

DATE_CANDIDATES ==
    << "Date", "Transaction Date", "Trans Date", "Posted Date", "Post Date",
       "TransactionDate", "Posting Date" >>

\* AMOUNT_SINGLE, DEBIT_COLS and TYPE_COLS as far as both tools share them.
AMOUNT_SINGLE == << "Amount", "Amount ($)", "Transaction Amount", "Purchase Amount", "Amt" >>

\* str.lower() of a column name or an alias.
LowerName(c) ==
    CASE c = "Date" -> "date"
      [] c = "DATE" -> "date"
      [] c = "Transaction Date" -> "transaction date"
      [] c = "Trans Date" -> "trans date"
      [] c = "Posted Date" -> "posted date"
      [] c = "POSTED DATE" -> "posted date"
      [] c = "Post Date" -> "post date"
      [] c = "TransactionDate" -> "transactiondate"
      [] c = "Posting Date" -> "posting date"
      [] c = "Amount" -> "amount"
      [] c = "AMOUNT" -> "amount"
      [] c = "Amount ($)" -> "amount ($)"
      [] c = "Transaction Amount" -> "transaction amount"
      [] c = "Purchase Amount" -> "purchase amount"
      [] c = "Amt" -> "amt"
      [] c = "Memo" -> "memo"
      [] OTHER -> c

Columns(columns) == {columns[i] : i \in 1..Len(columns)}

\* The first pass of pick_column: the first candidate that is a column.
ExactPass(columns, candidates) ==
    LET hits == {i \in 1..Len(candidates) : candidates[i] \in Columns(columns)}
    IN IF hits = {} THEN NULL
       ELSE candidates[CHOOSE i \in hits : \A j \in hits : i <= j]

\* lower_map = {c.lower(): c for c in df.columns}, looked up at key: the
\* last column with that lower-case name.
lower_map(columns, key) ==
    LET at == {i \in 1..Len(columns) : LowerName(columns[i]) = key}
    IN columns[CHOOSE i \in at : \A j \in at : j <= i]

\* pick_column of csv_to_raw.py: the exact pass, then the pass over the
\* lower-case names.
pick_column_raw(columns, candidates) ==
    LET hits == {i \in 1..Len(candidates) :
                    \E c \in Columns(columns) : LowerName(c) = LowerName(candidates[i])}
    IN IF ExactPass(columns, candidates) # NULL THEN ExactPass(columns, candidates)
       ELSE IF hits = {} THEN NULL
       ELSE lower_map(columns, LowerName(candidates[CHOOSE i \in hits : \A j \in hits : i <= j]))

\* pick_column of csv_to_postgres.py: the exact pass alone.
pick_column(columns, candidates) == ExactPass(columns, candidates)

-----------------------------------------------------------------------------
(* SpecColumns: pick_column as a function of the header and the candidate   *)
(* list, for each of the two tools.                                         *)

MaxHeader == 3

HeaderNames == {"Date", "date", "DATE", "Posted Date", "posted date", "Amount", "amount", "Memo"}

\* The headers: up to MaxHeader distinct names, in any order.
Headers ==
    { h \in UNION { [1..n -> HeaderNames] : n \in 0..MaxHeader } :
        \A i, j \in 1..Len(h) : i # j => h[i] # h[j] }

Tools == {"csv_to_raw", "csv_to_postgres"}

InitColumns ==
    /\ csvFiles = <<>>
    /\ df = <<>>
    /\ deduped = <<>>
    /\ pc = "load"
    /\ store = <<>>
    /\ dupReview = <<>>
    /\ procLog = <<>>
    /\ \E h \in Headers : \E t \in Tools : \E cands \in {DATE_CANDIDATES, AMOUNT_SINGLE} :
          last = [op |-> "pick_column", tool |-> t, columns |-> h,
                  candidates |-> cands, out |-> NULL]
    /\ now = 1

PickColumn ==
    /\ pc = "load"
    /\ last' = [last EXCEPT !.out = IF last.tool = "csv_to_raw"
                                    THEN pick_column_raw(last.columns, last.candidates)
                                    ELSE pick_column(last.columns, last.candidates)]
    /\ pc' = "picked"
    /\ UNCHANGED <<csvFiles, df, deduped, store, dupReview, procLog, now>>

NextColumns == PickColumn

SpecColumns == InitColumns /\ [][NextColumns]_vars

-----------------------------------------------------------------------------
(* parse_amount_series on a file of one data row: columns is df.columns,    *)
(* row the cells of the row in the same order.  The result is None (NULL),  *)
(* or the amount of the row as clean_amount gives it: <<cents>>, <<>> for   *)
(* NaN.                                                                     *)

DEBIT_COLS == << "Debit", "Withdrawal", "Withdrawals", "Outflow", "Charges" >>

CREDIT_COLS(tool) ==
    IF tool = "csv_to_raw"
    THEN << "Credit", "Deposit", "Deposits", "Inflow", "Payments", "Payment" >>
    ELSE << "Credit", "Deposit", "Deposits", "Inflow", "Income" >>

TYPE_COLS(tool) ==
    IF tool = "csv_to_raw"
    THEN << "Type", "Transaction Type", "Dr/Cr", "Debit/Credit" >>
    ELSE << "Type", "Transaction Type", "Category", "Debit/Credit" >>

\* df[c] on the row.
CellAt(columns, row, c) == row[CHOOSE i \in 1..Len(columns) : columns[i] = c]

\* "amount" in c.lower() or "value" in c.lower().
NamesAmount(c) == c \in {"Amount", "amount", "Transaction Value"}

\* astype(str).str.lower() of a type cell.
TypeLower(cell) ==
    CASE cell = "Debit" -> "debit"
      [] cell = "DR" -> "dr"
      [] cell = "Credit" -> "credit"
      [] cell = "Direct Debit" -> "direct debit"
      [] cell = NaN -> "nan"
      [] OTHER -> cell

\* The sign of a row by its lower-cased type.
SignOf(x) ==
    IF x \in {"debit", "direct debit"} \/ x \in {"dr", "withdrawal", "charge"}
    THEN -1 ELSE 1

\* fillna(0) on one value.
FillZero(v) == IF v = <<>> THEN 0 ELSE v[1]

\* Case C from the k-th type alias on: the first type column that the file
\* has and that comes with a column naming an amount, signed by the type.
RECURSIVE TypeSigned(_, _, _, _)
TypeSigned(columns, row, aliases, k) ==
    IF k > Len(aliases) THEN NULL
    ELSE LET tcol == aliases[k]
             amts == {i \in 1..Len(columns) : columns[i] # tcol /\ NamesAmount(columns[i])}
         IN IF tcol \in Columns(columns) /\ amts # {}
            THEN LET v == clean_amount(row[CHOOSE i \in amts : \A j \in amts : i <= j])
                 IN IF v = <<>> THEN <<>>
                    ELSE << v[1] * SignOf(TypeLower(CellAt(columns, row, tcol))) >>
            ELSE TypeSigned(columns, row, aliases, k + 1)

parse_amount_series(tool, columns, row) ==
    LET single == ExactPass(columns, AMOUNT_SINGLE)
        dc     == ExactPass(columns, DEBIT_COLS)
        cc     == ExactPass(columns, CREDIT_COLS(tool))
    IN IF single # NULL THEN clean_amount(CellAt(columns, row, single))
       ELSE IF dc # NULL \/ cc # NULL
       THEN << (IF cc # NULL THEN FillZero(clean_amount(CellAt(columns, row, cc))) ELSE 0)
               - (IF dc # NULL THEN FillZero(clean_amount(CellAt(columns, row, dc))) ELSE 0) >>
       ELSE TypeSigned(columns, row, TYPE_COLS(tool), 1)

-----------------------------------------------------------------------------
(* SpecAmount: parse_amount_series as a function of the file, for each of   *)
(* the two tools.                                                           *)

MaxAmountHeader == 3

AmountNames ==
    {"Amount", "amount", "Debit", "Credit", "Type", "Category", "Transaction Value", "Memo"}

AmountHeaders ==
    { h \in UNION { [1..n -> AmountNames] : n \in 0..MaxAmountHeader } :
        \A i, j \in 1..Len(h) : i # j => h[i] # h[j] }

\* The cells a column can hold.
CellsOf(c) ==
    IF c \in {"Type", "Category"} THEN {"Debit", "DR", "Credit", "Direct Debit"}
    ELSE IF c = "Memo" THEN {"x"}
    ELSE {"12.00", "-4.50", NaN}

AmountRows(h) == { r \in [1..Len(h) -> {"Debit", "DR", "Credit", "Direct Debit", "x", "12.00", "-4.50", NaN}] :
                     \A i \in 1..Len(h) : r[i] \in CellsOf(h[i]) }

InitAmount ==
    /\ csvFiles = <<>>
    /\ df = <<>>
    /\ deduped = <<>>
    /\ pc = "load"
    /\ store = <<>>
    /\ dupReview = <<>>
    /\ procLog = <<>>
    /\ \E t \in Tools : \E h \in AmountHeaders : \E r \in AmountRows(h) :
          last = [op |-> "parse_amount_series", tool |-> t, columns |-> h,
                  row |-> r, out |-> NULL]
    /\ now = 1

ParseAmount ==
    /\ pc = "load"
    /\ last' = [last EXCEPT !.out = parse_amount_series(last.tool, last.columns, last.row)]
    /\ pc' = "parsed"
    /\ UNCHANGED <<csvFiles, df, deduped, store, dupReview, procLog, now>>

NextAmount == ParseAmount

SpecAmount == InitAmount /\ [][NextAmount]_vars

-----------------------------------------------------------------------------
(* SpecReview: the review workflow over a ledger loaded by one ingestion   *)
(* run.                                                                     *)

MaxLedgerRows == 3

\* The data rows of the ledger file: the same purchase text in two
\* spellings on one day, and in one of them the day before.
LedgerRawRows(cols) ==
    { [ Date |-> k[1], Description |-> k[2], Amount |-> "-4.50",
        TxnId |-> NaN, Reference |-> IF "Reference" \in cols THEN "R1" ELSE NaN,
        Time |-> NaN, Account |-> NaNAccount, Balance |-> "100.00" ] :
        k \in { <<"2024-01-04", "COFFEE SHOP #102">>,
                <<"2024-01-04", "Coffee Shop #102">>,
                <<"2024-01-03", "COFFEE SHOP #102">> } }

LedgerCols == { {"Balance"} }

\* The calls of review_duplicate tried in a state: the group ids staged so
\* far and one that never existed, the ids of the stored transactions, 0
\* (no keep_transaction_id) and one id the store does not hold.
\* keep_transaction_id is given with delete_duplicate only.
ReviewParams ==
    { p \in [ group_id : {dupReview[i].group_id : i \in 1..Len(dupReview)} \cup {99},
              action : valid_actions \cup {"delete"},
              keep_transaction_id : 0..(Len(store) + 1),
              notes : {"same swipe"} ] :
        p.action # "delete_duplicate" => p.keep_transaction_id = 0 }

InitReview ==
    /\ \E cols \in LedgerCols : \E n \in 1..MaxLedgerRows :
          \E rows \in [1..n -> LedgerRawRows(cols)] :
             LET f   == [stem |-> "chk", cols |-> cols, missing |-> {}, rows |-> rows]
                 run == RunIngestion(<<>>, <<>>, <<f>>)
             IN /\ store = run.table
                /\ procLog = run.log
                /\ last = AfterRun(f, run, 0, FALSE)
    /\ csvFiles = <<>>
    /\ df = <<>>
    /\ deduped = <<>>
    /\ pc = "none"
    /\ dupReview = <<>>
    /\ now = 1

ReviewDuplicate == \E params \in ReviewParams : Review(params, FALSE)

NextReview == StageDuplicates \/ ReviewDuplicate

SpecReview == InitReview /\ [][NextReview]_vars

-----------------------------------------------------------------------------
(* SpecReviewFault: the review workflow when the store can reject the      *)
(* INSERT into processing_log (the last statement of review_duplicate).    *)

\* A review whose log_query raises: the except clause of review_duplicate
\* turns the exception into the returned text.
ReviewDuplicateLogFails == \E params \in ReviewParams : Review(params, TRUE)

NextReviewFault == StageDuplicates \/ ReviewDuplicate \/ ReviewDuplicateLogFails

SpecReviewFault == InitReview /\ [][NextReviewFault]_vars

-----------------------------------------------------------------------------
(* SpecRestage: scans and reviews over the ledger, with room for a review,  *)
(* a later scan and a review of what that scan staged.                      *)

MaxRestageReviews == 2

ReviewStaged == \E params \in ReviewParams : ReviewWithin(MaxRestageReviews, params, FALSE)

NextRestage == StageDuplicates \/ ReviewStaged

SpecRestage == InitReview /\ [][NextRestage]_vars

-----------------------------------------------------------------------------
(* SpecDelete: scans, reviews and delete_transaction calls over the ledger. *)

\* The calls of delete_transaction tried in a state: the ids of the stored
\* transactions, with the default permanent = False or with permanent = True.
DeleteParams ==
    [ transaction_id : {store[i].id : i \in 1..Len(store)},
      reason : {"duplicate"},
      permanent : BOOLEAN ]

DeleteTransaction == \E params \in DeleteParams : Delete(params)

\* A scan with the default parameters.
StageDefault == Stage(DefaultStageParams)

NextDelete == StageDefault \/ ReviewDuplicate \/ DeleteTransaction

SpecDelete == InitReview /\ [][NextDelete]_vars

-----------------------------------------------------------------------------
(* SpecKeep: scans, delete_transaction calls and reviews over the ledger,   *)
(* with room for a review after a deletion or after another review.         *)

NextKeep == StageDefault \/ ReviewStaged \/ DeleteTransaction

SpecKeep == InitReview /\ [][NextKeep]_vars

-----------------------------------------------------------------------------
(* SpecConcurrent: two review_duplicate calls in flight over one store.    *)
(* A call is its statements, each one committed on its own: the SELECT of  *)
(* the group (with the checks that follow it, which touch no table), the   *)
(* soft-delete UPDATE, the duplicate_review UPDATE, the processing_log     *)
(* INSERT.  pc[r] is the statement call r sends next, last[r] what call r  *)
(* holds in its local variables.                                            *)

Reviewers == {1, 2}

\* The calls tried: a staged group, keep_both or delete_duplicate with no
\* keep_transaction_id or the id of a stored transaction.
ConcurrentParams ==
    { p \in [ group_id : {dupReview[i].group_id : i \in 1..Len(dupReview)},
              action : {"keep_both", "delete_duplicate"},
              keep_transaction_id : 0..Len(store),
              notes : {"same swipe"} ] :
        p.action # "delete_duplicate" => p.keep_transaction_id = 0 }

\* The rows a scan with the default parameters reads from the table, and
\* the duplicate_review rows it stages when the store returns them in the
\* order given.
SeenByScan(table) ==
    SelectSeq(table, LAMBDA t : InWindow(t, DefaultStageParams.days_back))

StagedByScan(table, order) ==
    StagedRows(DefaultStageParams,
               DuplicateGroups([i \in 1..Len(order) |-> SeenByScan(table)[order[i]]],
                               DefaultStageParams.amount_tolerance))

InitConcurrent ==
    /\ \E cols \in LedgerCols : \E n \in 2..MaxLedgerRows :
          \E rows \in [1..n -> LedgerRawRows(cols)] :
             LET run == RunIngestion(<<>>, <<>>,
                          << [stem |-> "chk", cols |-> cols, missing |-> {}, rows |-> rows] >>)
             IN /\ store = run.table
                /\ procLog = run.log
    /\ \E order \in ScanOrders(SeenByScan(store)) :
          dupReview = StagedByScan(store, order)
    /\ dupReview # <<>>
    /\ csvFiles = <<>>
    /\ df = <<>>
    /\ deduped = <<>>
    /\ pc = [r \in Reviewers |-> "idle"]
    /\ last = [r \in Reviewers |-> [result |-> "idle"]]
    /\ now = 1

\* group_query and the checks up to the first write: what the call read is
\* kept in its local variables; an early return ends the call.
ReviewSelect(r, params) ==
    /\ pc[r] = "idle"
    /\ LET group_transactions == GroupTransactions(store, dupReview, params.group_id)
           reason == Rejection(store, dupReview, params)
       IN /\ pc' = [pc EXCEPT ![r] =
                       IF reason # "" THEN "done"
                       ELSE IF params.action = "delete_duplicate" THEN "delete"
                       ELSE "update"]
          /\ last' = [last EXCEPT ![r] =
                       [ params |-> params,
                         group_tx_ids |-> {group_transactions[i].transaction_id :
                                              i \in 1..Len(group_transactions)},
                         n |-> Len(group_transactions),
                         result |-> reason ]]
    /\ UNCHANGED <<csvFiles, df, deduped, store, dupReview, procLog, now>>

\* delete_query for the transactions read by group_query other than the
\* kept one (a group has two members: one statement).
ReviewSoftDelete(r) ==
    /\ pc[r] = "delete"
    /\ store' = SoftDeleteOthers(store, last[r].group_tx_ids,
                                 last[r].params.keep_transaction_id, now)
    /\ pc' = [pc EXCEPT ![r] = "update"]
    /\ UNCHANGED <<csvFiles, df, deduped, dupReview, procLog, last, now>>

\* update_query.
ReviewUpdate(r) ==
    /\ pc[r] = "update"
    /\ dupReview' = MarkReviewed(dupReview, last[r].params, now)
    /\ pc' = [pc EXCEPT ![r] = "log"]
    /\ UNCHANGED <<csvFiles, df, deduped, store, procLog, last, now>>

\* log_query and the response.
ReviewLog(r) ==
    /\ pc[r] = "log"
    /\ procLog' = Append(procLog, ReviewLogRow(last[r].params, last[r].n))
    /\ pc' = [pc EXCEPT ![r] = "done"]
    /\ last' = [last EXCEPT ![r].result = Reviewed]
    /\ UNCHANGED <<csvFiles, df, deduped, store, dupReview, now>>

NextConcurrent ==
    \E r \in Reviewers :
        \/ \E params \in ConcurrentParams : ReviewSelect(r, params)
        \/ ReviewSoftDelete(r)
        \/ ReviewUpdate(r)
        \/ ReviewLog(r)

SpecConcurrent == InitConcurrent /\ [][NextConcurrent]_vars

-----------------------------------------------------------------------------
(* SpecDedup: normalize_csv and deduplicate_dataframe as functions of the  *)
(* input files.  Init draws the files; the two actions apply the code.     *)

MaxRows == 3

DedupDates == {"2024-01-03", "2024-01-04"}

\* The data rows a file with the optional columns cols can have.
DedupRawRows(cols) ==
    { [ Date |-> d, Description |-> "COFFEE SHOP #102", Amount |-> "-4.50",
        TxnId |-> t, Reference |-> r, Time |-> NaN, Account |-> a, Balance |-> NaN ] :
        d \in DedupDates,
        t \in IF "TxnId" \in cols THEN {NaN, "T1"} ELSE {NaN},
        r \in IF "Reference" \in cols THEN {NaN, "R1"} ELSE {NaN},
        a \in IF "Account" \in cols THEN {NaNAccount, ACCT_1234} ELSE {NaNAccount} }

DedupCols == { {}, {"Reference"}, {"TxnId", "Account"}, {"TxnId", "Account", "Reference"} }

\* The columns of a file of n rows: a file without rows has no columns
\* that matter.
DedupColsFor(n) == IF n = 0 THEN { {} } ELSE DedupCols

InitDedup ==
    /\ \E n \in 0..MaxRows : \E k \in 0..n :
          \E c1 \in DedupColsFor(k) : \E c2 \in DedupColsFor(n - k) :
             \E r1 \in [1..k -> DedupRawRows(c1)] :
                \E r2 \in [1..(n - k) -> DedupRawRows(c2)] :
                   csvFiles = << [stem |-> "chk", cols |-> c1, missing |-> {}, rows |-> r1],
                                 [stem |-> "visa", cols |-> c2, missing |-> {}, rows |-> r2] >>
    /\ df = <<>>
    /\ deduped = <<>>
    /\ pc = "load"
    /\ store = <<>>
    /\ dupReview = <<>>
    /\ procLog = <<>>
    /\ last = [op |-> "none"]
    /\ now = 1

\* normalize_csv on every file, then pd.concat.
Normalize ==
    /\ pc = "load"
    /\ df' = Combine(csvFiles)
    /\ pc' = "normalized"
    /\ UNCHANGED <<csvFiles, deduped, store, dupReview, procLog, last, now>>

\* deduplicate_dataframe on the combined DataFrame.
Deduplicate ==
    /\ pc = "normalized"
    /\ deduped' = deduplicate_dataframe(df)
    /\ pc' = "deduped"
    /\ UNCHANGED <<csvFiles, df, store, dupReview, procLog, last, now>>

NextDedup == Normalize \/ Deduplicate

SpecDedup == InitDedup /\ [][NextDedup]_vars

-----------------------------------------------------------------------------
(* SpecNormalize: normalize_csv over files with cells that do not parse.   *)

NormalizeDates == {"2024-01-03", "01/03/2024", "n/a", NaN}
NormalizeAmounts == {"-4.50", "$-4.50", "pending", NaN}

\* The data rows of the files of SpecNormalize.
NormalizeRawRows ==
    { [ Date |-> d, Description |-> "COFFEE SHOP #102", Amount |-> a,
        TxnId |-> NaN, Reference |-> NaN, Time |-> NaN, Account |-> NaNAccount,
        Balance |-> NaN ] :
        d \in NormalizeDates, a \in NormalizeAmounts }

InitNormalize ==
    /\ \E n \in 1..MaxFileRows : \E rows \in [1..n -> NormalizeRawRows] :
          csvFiles = << [stem |-> "chk", cols |-> {}, missing |-> {}, rows |-> rows] >>
    /\ df = <<>>
    /\ deduped = <<>>
    /\ pc = "load"
    /\ store = <<>>
    /\ dupReview = <<>>
    /\ procLog = <<>>
    /\ last = [op |-> "none"]
    /\ now = 1

SpecNormalize == InitNormalize /\ [][NextDedup]_vars

-----------------------------------------------------------------------------
(* Claims about deduplicate_dataframe (checked under SpecDedup).           *)

\* The frames between the tiers of deduplicate_dataframe(df).
Tier1Out == IF df = <<>> THEN df ELSE Rule1(df)
Tier2Out == IF df = <<>> THEN df ELSE Rule2(Tier1Out)
Tier3Out == IF df = <<>> THEN df ELSE Rule3(Tier2Out)

NoTwoWithSameKey(d, Has(_), Key(_)) ==
    \A i, j \in 1..Len(d) :
        (i < j /\ Has(d[i]) /\ Has(d[j])) => Key(d[i]) # Key(d[j])

AnyRow(r) == TRUE

\* C3: the rows returned by deduplicate_dataframe contain no two rows with
\* the same non-empty (TxnId, Account), no two rows with a non-empty
\* Reference and the same (Reference, Date, Amount, Time), and no two rows
\* with the same OriginalHash; a batch of two rows with the same TxnId and
\* Account but different Reference leaves exactly one survivor.
C3_NoDuplicateSurvives ==
    pc = "deduped" =>
        /\ NoTwoWithSameKey(deduped, HasTxnIdAccount, Key1)
        /\ NoTwoWithSameKey(deduped, HasReference, Key2)
        /\ NoTwoWithSameKey(deduped, AnyRow, Key3)
        /\ ( /\ Len(df) = 2
             /\ HasTxnIdAccount(df[1]) /\ HasTxnIdAccount(df[2])
             /\ Key1(df[1]) = Key1(df[2])
             /\ df[1].Reference # df[2].Reference )
           => Len(deduped) = 1

\* C3 witness: two rows of different files (different Source) with the same
\* TxnId and Account but different Reference went in, one came out.
C3_Witness ==
    /\ pc = "deduped"
    /\ Len(df) = 2
    /\ df[1].TxnId = "T1" /\ df[2].TxnId = "T1"
    /\ df[1].Account = df[2].Account /\ df[1].Account # <<>>
    /\ df[1].Reference # df[2].Reference
    /\ df[1].Source # df[2].Source
    /\ Len(deduped) = 1

\* In a tier with input d and output o, the row kept for a key is the first
\* row of d, in ingestion order (Line), that carries the key.
KeptIsFirst(d, o, Has(_), Key(_)) ==
    \A i \in 1..Len(d) : \A j \in 1..Len(o) :
        (Has(d[i]) /\ Has(o[j]) /\ Key(d[i]) = Key(o[j])) => o[j].Line <= d[i].Line

\* C4: in each of tiers 1-3, among the rows that are duplicates of each
\* other under the tier's key, the row kept is the one that comes first in
\* the order of the rows passed to deduplicate_dataframe.
C4_KeepsFirstInIngestionOrder ==
    pc = "deduped" =>
        /\ KeptIsFirst(df, Tier1Out, HasTxnIdAccount, Key1)
        /\ KeptIsFirst(Tier1Out, Tier2Out, HasReference, Key2)
        /\ KeptIsFirst(Tier2Out, Tier3Out, AnyRow, Key3)

\* The raw data rows of all files in the order of the combined DataFrame,
\* each with the optional columns of its file.
RECURSIVE RawRowsOf(_)
RawRowsOf(fs) ==
    IF fs = <<>> THEN <<>>
    ELSE LET f == Head(fs)
             valid == SelectSeq(f.rows, ValidRaw)
         IN [i \in 1..Len(valid) |-> [cols |-> f.cols, raw |-> valid[i]]]
                \o RawRowsOf(Tail(fs))

\* The CSV row has a value in the column: the file has it and the cell is
\* not empty.
HasValue(rr, col) ==
    /\ col \in rr.cols
    /\ IF col = "Account" THEN rr.raw.Account # NaNAccount ELSE rr.raw[col] # NaN

Lines(d) == {d[i].Line : i \in 1..Len(d)}

\* C5: tier 1 never drops a row that has no txnId value or no account
\* value, and tier 2 never drops a row that has no reference value,
\* including rows whose cell is blank in a file that has the column.
C5_RowsWithoutKeyPassThrough ==
    pc = "deduped" =>
        LET rr == RawRowsOf(csvFiles)
        IN \A i \in 1..Len(rr) :
              /\ (~HasValue(rr[i], "TxnId") \/ ~HasValue(rr[i], "Account"))
                    => i \in Lines(Tier1Out)
              /\ (~HasValue(rr[i], "Reference") /\ i \in Lines(Tier1Out))
                    => i \in Lines(Tier2Out)

-----------------------------------------------------------------------------
(* Claims about ingestion runs (checked under Spec).                       *)

\* The rows of the file of the last run, as handed to deduplicate_dataframe.
RunRows == Combine(<<last.file>>)

\* The transactions table as the last run found it (rows are only added).
StoreBefore == SubSeq(store, 1, last.count_before)

\* Two rows of a batch are duplicates of each other under tier 1, 2 or 3.
MatchOnTier(r, o) ==
    \/ HasTxnIdAccount(r) /\ HasTxnIdAccount(o) /\ Key1(r) = Key1(o)
    \/ HasReference(r) /\ HasReference(o) /\ Key2(r) = Key2(o)
    \/ Key3(r) = Key3(o)

\* A row of a batch and a stored transaction are duplicates of each other
\* under tier 1, 2 or 3.
MatchStored(r, t) ==
    \/ HasTxnIdAccount(r) /\ t.txn_id = r.TxnId /\ t.account = r.Account
    \/ /\ HasReference(r) /\ t.reference = r.Reference /\ t.date = r.Date
       /\ t.amount = r.Amount /\ t.time_part = StrOrNone(r.Time)
    \/ t.original_hash = r.OriginalHash

IsStored(r) == \E k \in 1..Len(store) : store[k].original_hash = r.OriginalHash

\* C1: an ingestion run leaves a row of the file out of the store only when
\* the row matches another row of the batch, or a stored row, on
\* (TxnId, Account), on (Reference, Date, Amount, Time) or on the content
\* hash; equal date, description and amount alone never keep a row out.
C1_LeftOutOnlyOnTierMatch ==
    last.op = "ingest" =>
        \A i \in 1..Len(RunRows) :
            \/ IsStored(RunRows[i])
            \/ \E j \in 1..Len(RunRows) : j # i /\ MatchOnTier(RunRows[i], RunRows[j])
            \/ \E k \in 1..Len(StoreBefore) : MatchStored(RunRows[i], StoreBefore[k])

\* The processing_log entry of the last run.
LastEntry == procLog[Len(procLog)]

\* C2: a run over the file of the run before it leaves the number of stored
\* rows as it was, skips every de-duplicated row of the file as already
\* existing and inserts none.
C2_RerunSkipsEveryRow ==
    (last.op = "ingest" /\ last.rerun) =>
        /\ Len(store) = last.count_before
        /\ last.skipped = Len(deduplicate_dataframe(RunRows))
        /\ LastEntry.records_skipped = Len(deduplicate_dataframe(RunRows))
        /\ LastEntry.records_inserted = 0

\* Two rows with the same date, description and amount that differ in the
\* transaction id or in the balance.
SameKeyOtherFingerprint(r, o) ==
    /\ r.Date = o.Date /\ r.Description = o.Description /\ r.Amount = o.Amount
    /\ r.TxnId # o.TxnId \/ r.Balance # o.Balance

\* The groups of a scan whose members are exactly the transactions with the
\* content hashes of r and o.
GroupsOf(groups, r, o) ==
    { k \in 1..Len(groups) :
        {groups[k].transactions[m].id : m \in 1..Len(groups[k].transactions)}
          = {store[n].id : n \in {n \in 1..Len(store) :
                store[n].original_hash \in {r.OriginalHash, o.OriginalHash}}} }

\* C6: two rows of an ingested file with the same date, description and
\* amount that differ in the transaction id or in the balance both survive
\* tiers 1-3 and are both stored, and the scan (default window) that
\* follows the run creates exactly one group, whose members are these two
\* rows, with score 0.85 and reason "Same Description and Amount, 0 days
\* apart".
C6_SameKeyPairIsStagedOnce ==
    [][ \A params \in StageParams :
          (last.op = "ingest" /\ params.days_back = 30 /\ Stage(params)) =>
             \A i, j \in 1..Len(RunRows) :
                (i < j /\ SameKeyOtherFingerprint(RunRows[i], RunRows[j])) =>
                    /\ {i, j} \subseteq Lines(deduplicate_dataframe(RunRows))
                    /\ IsStored(RunRows[i]) /\ IsStored(RunRows[j])
                    /\ Cardinality(GroupsOf(last'.groups, RunRows[i], RunRows[j])) = 1
                    /\ \A k \in GroupsOf(last'.groups, RunRows[i], RunRows[j]) :
                          /\ last'.groups[k].similarity_score = 85
                          /\ last'.groups[k].reason
                                = "Same Description and Amount, 0 days apart" ]_vars

-----------------------------------------------------------------------------
(* Claims about the review workflow (checked under SpecReview).            *)

NoPending == "No pending review found"

PendingMembers(group_id) ==
    LET g == GroupTransactions(store, dupReview, group_id)
    IN {g[i].transaction_id : i \in 1..Len(g)}

\* The calls C9 is about.
C9_ToBeRejected(p) ==
    \/ p.action \notin valid_actions
    \/ /\ p.action = "delete_duplicate"
       /\ p.keep_transaction_id = 0 \/ p.keep_transaction_id \notin PendingMembers(p.group_id)
    \/ PendingMembers(p.group_id) = {}

RejectionReasons ==
    { NoPending, "Group has too few transactions", "Invalid action",
      "keep_transaction_id is required", "Transaction ID is not in group" }

-----------------------------------------------------------------------------
(* Claims about failures and concurrency of the review tools.              *)

ErrorReviewing == "Error reviewing duplicate"

TookEffect(g) ==
    {r \in Reviewers : /\ pc[r] = "done"
                       /\ last[r].result = Reviewed
                       /\ last[r].params.group_id = g}

AllDone == \A r \in Reviewers : pc[r] = "done"

-----------------------------------------------------------------------------
(* Claims about auto-staging and physical removal.                          *)

\* The duplicate_review rows of the group g in the table reviews.
RowsOfGroup(reviews, g) ==
    SelectSeq(reviews, LAMBDA r : r.group_id = g.group_id)

\* The group is finalized in the tables: all its rows reviewed with action
\* delete_duplicate.
Finalized(reviews, g) ==
    \A i \in 1..Len(RowsOfGroup(reviews, g)) :
        /\ RowsOfGroup(reviews, g)[i].reviewed
        /\ RowsOfGroup(reviews, g)[i].action_taken = "delete_duplicate"

Unreviewed(reviews, g) ==
    \A i \in 1..Len(RowsOfGroup(reviews, g)) : ~RowsOfGroup(reviews, g)[i].reviewed

RowWithId(table, id) == CHOOSE t \in {table[i] : i \in 1..Len(table)} : t.id = id

-----------------------------------------------------------------------------
(* Claims about the ingestion run: the batch insert, the processing log,    *)
(* files that cannot be normalized, --dry-run.                              *)

\* The transactions the last run selected for insertion.
SelectedByRun ==
    NewTransactions(StoreBefore,
                    prepare_transactions_for_db(deduplicate_dataframe(RunRows)))

\* The rows the last run added to the store.
AddedByRun == SubSeq(store, last.count_before + 1, Len(store))

\* C15: after an ingestion run, also one whose insert fails on a
\* uniqueness violation of one row of the batch, either all the rows the
\* run selected for insertion are in the store or none of them is.
C15_BatchAllOrNothing ==
    last.op = "ingest" =>
        \/ AddedByRun = <<>>
        \/ /\ Len(AddedByRun) = Len(SelectedByRun)
           /\ \A i \in 1..Len(SelectedByRun) :
                 /\ AddedByRun[i].original_hash = SelectedByRun[i].original_hash
                 /\ AddedByRun[i].row_hash = SelectedByRun[i].row_hash

\* A run selected two rows with the same row_hash, the second of which the
\* store refused, and none of the two is in the store.
C15_Witness ==
    /\ last.op = "ingest"
    /\ last.status = "failed"
    /\ Len(SelectedByRun) = 2
    /\ SelectedByRun[1].row_hash = SelectedByRun[2].row_hash
    /\ SelectedByRun[1].row_hash \notin RowHashes(StoreBefore)
    /\ AddedByRun = <<>>

\* The de-duplicated rows of the last run whose row_hash the store held
\* before the run.
AlreadyExisting ==
    LET d == deduplicate_dataframe(RunRows)
    IN {i \in 1..Len(d) :
           stable_rowhash(d[i].Date, d[i].Description, d[i].Amount)
               \in RowHashes(StoreBefore)}

\* C16: the processing-log entry of a run logged as completed tells the
\* truth: records_inserted is the number of rows the run added to the
\* store, records_skipped the number of de-duplicated rows left out as
\* already existing, records_processed their sum.
C16_CompletedEntryIsTruthful ==
    (last.op = "ingest" /\ LastEntry.status = "completed") =>
        /\ LastEntry.records_inserted = Len(AddedByRun)
        /\ LastEntry.records_skipped = Cardinality(AlreadyExisting)
        /\ LastEntry.records_skipped
              = Len(deduplicate_dataframe(RunRows)) - Len(AddedByRun)
        /\ LastEntry.records_processed
              = LastEntry.records_inserted + LastEntry.records_skipped

\* A completed run that added a row and left one out as already existing.
C16_Witness ==
    /\ last.op = "ingest"
    /\ LastEntry.status = "completed"
    /\ LastEntry.records_inserted = 1
    /\ LastEntry.records_skipped = 1
    /\ Len(AddedByRun) = 1
    /\ last.count_before > 0

\* C17: every ingestion run that started a processing-log entry leaves it
\* completed or failed, never pending; a run whose existing-row lookup
\* fails inserts no row and is logged as failed.
C17_StartedRunEndsTerminal ==
    /\ \A i \in 1..Len(procLog) : procLog[i].status \in {"completed", "failed"}
    /\ (last.op = "run" /\ last.lookup_fails
           /\ last.status \in {"completed", "failed", "crashed"}) =>
          /\ LastEntry.status = "failed"
          /\ Len(store) <= last.count_before

\* The lookup of a run failed and the entry of the run is still pending.
C17_Witness ==
    /\ last.op = "run"
    /\ last.lookup_fails
    /\ last.status = "crashed"
    /\ LastEntry.status = "pending"
    /\ Len(store) = last.count_before

\* The files of a folder in which a date column and an amount shape are
\* found, and the names of the others.
GoodFiles(fs) == SelectSeq(fs, LAMBDA f : f.missing = {})
BadStems(fs) == {fs[i].stem : i \in {k \in 1..Len(fs) : fs[k].missing # {}}}

\* C18: a file without a detectable date column or amount shape is fatal
\* for that file only: the run counts it as errored, stores no row of it,
\* and does with the other files of the folder what a run over them alone
\* does.
C18_BadFileFatalForThatFileOnly ==
    \A fs \in Folders :
        LET run   == ImportRun(store, procLog, fs, FALSE)
            alone == ImportRun(store, procLog, GoodFiles(fs), FALSE)
            entry == run.log[Len(run.log)]
        IN (fs # <<>> /\ BadStems(fs) # {}) =>
              /\ ErrorFiles(fs) = Cardinality(BadStems(fs))
              /\ \A i \in (Len(store) + 1)..Len(run.table) :
                    run.table[i].source \notin BadStems(fs)
              /\ IF GoodFiles(fs) = <<>>
                 THEN run.table = store /\ run.status = "failed"
                 ELSE /\ run.table = alone.table
                      /\ run.status = alone.status
                      /\ run.status \in {"completed", "failed"}
                            => /\ entry.error_count = Cardinality(BadStems(fs))
                               /\ entry.records_inserted
                                     = alone.log[Len(alone.log)].records_inserted
                               /\ entry.records_processed
                                     = alone.log[Len(alone.log)].records_processed

\* A run over a folder with one file that could not be normalized has
\* completed and stored the row of the other file.
C18_Witness ==
    /\ last.op = "run"
    /\ last.status = "completed"
    /\ LastEntry.error_count = 1
    /\ LastEntry.records_inserted = 1
    /\ Len(store) = last.count_before + 1

\* C19: the output of normalize_csv has one row for every source row whose
\* date and amount both parse and no other row: no row with an empty date
\* or without an amount.
C19_DropsUnparseableRows ==
    pc = "normalized" =>
        /\ \A i \in 1..Len(df) : df[i].Date # ""
        /\ Len(df) = Cardinality({i \in 1..Len(csvFiles[1].rows) :
                                    /\ parse_date_col(csvFiles[1].rows[i].Date) # ""
                                    /\ clean_amount(csvFiles[1].rows[i].Amount) # <<>>})

\* The file has a row whose date does not parse and whose amount does, and
\* the output has it with an empty date.
C19_Witness ==
    /\ pc = "normalized"
    /\ \E i \in 1..Len(csvFiles[1].rows) :
          /\ csvFiles[1].rows[i].Date = "n/a"
          /\ csvFiles[1].rows[i].Amount = "-4.50"
    /\ \E i \in 1..Len(df) : df[i].Date = "" /\ df[i].Amount = -450

-----------------------------------------------------------------------------
(* Claims about the clear flag of the ingestion tools (SpecClear).          *)

\* The step took a row out of the store / out of the Raw Data sheet.
StoreRowRemoved ==
    \E i \in 1..Len(store) : \A j \in 1..Len(store') : store'[j].id # store[i].id
SheetRowRemoved ==
    \E i \in 1..Len(df) :
        \A j \in 1..Len(df') : df'[j].OriginalHash # df[i].OriginalHash

\* C21: a run with the clear flag removes existing data only after the
\* user has entered the confirmation token 'yes'; after any other answer
\* nothing is deleted and the run stops without importing.
C21_ClearOnlyAfterConfirmation ==
    [][ (last'.op \in {"clear run", "raw run"} /\ last'.clear) =>
           /\ (StoreRowRemoved \/ SheetRowRemoved) => last'.answer = "yes"
           /\ last'.answer # "yes" =>
                 /\ store' = store /\ procLog' = procLog /\ df' = df
                 /\ last'.status = "cancelled" ]_vars

\* A run of csv_to_raw.py with --clear-raw, which asked nothing, found two
\* rows in the sheet and has written a sheet with one.
C21_Witness ==
    /\ last.op = "raw run"
    /\ last.clear
    /\ last.answer = NoPrompt
    /\ last.status = "written"
    /\ last.count_before = 2
    /\ Len(df) = 1

-----------------------------------------------------------------------------
(* Claims about the categorization tools (SpecCategorize).                  *)

\* The category and the note that the last run left for the row with the
\* hash h: in Clean Data for bookkeeping_helper.py, in the transactions
\* table for bookkeeping_helper_postgres.py (which keeps no note); NULL
\* when there is none.
CategoryOf(h) ==
    IF last.tool = "excel"
    THEN IF \E i \in 1..Len(deduped) : deduped[i].rowhash = h
         THEN deduped[CHOOSE i \in 1..Len(deduped) :
                         deduped[i].rowhash = h].suggested_category
         ELSE NULL
    ELSE store[CHOOSE i \in 1..Len(store) : store[i].row_hash = h].category

NoteOf(h) ==
    IF \E i \in 1..Len(deduped) : deduped[i].rowhash = h
    THEN deduped[CHOOSE i \in 1..Len(deduped) : deduped[i].rowhash = h].notes
    ELSE NULL

\* C22: after a categorization run that came to its end, every row handed
\* to the service has a category, and a row for which the service gave no
\* entry (its answer lacking the row, empty, timed out or malformed) has
\* the category Misc, with the note that flags it where notes are kept.
C22_EveryHandedRowGetsCategory ==
    (last.op = "categorize" /\ last.status # "crashed") =>
        \A h \in last.handed :
            /\ Truthy(CategoryOf(h))
            /\ h \in last.unmatched =>
                  /\ CategoryOf(h) = "Misc"
                  /\ last.tool = "excel" => NoteOf(h) = FallbackNote

\* A run of bookkeeping_helper_postgres.py handed a row to the service, got
\* no entry for it and left it without a category.
C22_Witness ==
    /\ last.op = "categorize"
    /\ last.tool = "postgres"
    /\ \E h \in last.handed : h \in last.unmatched /\ CategoryOf(h) = NULL

\* C27: a failure of the service on a batch (timeout, HTTP error,
\* connection error, malformed response) does not end the run: the call is
\* attempted at most max_retries times and the rows of the batch get the
\* fallback category.
C27_ServiceFailureNeverFatal ==
    (last.op = "categorize" /\ last.failures # {}) =>
        /\ last.status # "crashed"
        /\ last.attempts <= max_retries
        /\ \A h \in last.unmatched : CategoryOf(h) = "Misc"

\* A run of bookkeeping_helper.py whose call ended in an HTTP error at the
\* first attempt: main died and Clean Data has none of the rows handed over.
C27_Witness ==
    /\ last.op = "categorize"
    /\ last.tool = "excel"
    /\ last.status = "crashed"
    /\ last.failures = {"HTTPError"}
    /\ last.attempts = 1
    /\ last.handed # {}
    /\ \A h \in last.handed : CategoryOf(h) = NULL

-----------------------------------------------------------------------------
(* Claims about interleaved ingestion runs (SpecInterleave).                *)

\* C23: whatever the interleaving of two ingestion runs, the store never
\* holds two rows with the same content hash.
C23_NoTwoRowsWithOneContentHash ==
    \A i, j \in 1..Len(store) :
        i # j => store[i].original_hash # store[j].original_hash

\* Both runs selected the same row for insertion, so both looked the store
\* up before either inserted; one has inserted and completed, the other
\* was refused and failed.
C23_Witness ==
    /\ \A r \in Importers : pc[r] = "done"
    /\ last[1].status = "completed"
    /\ last[2].status = "failed"
    /\ \E i \in 1..Len(last[1].new) : \E j \in 1..Len(last[2].new) :
          last[1].new[i].original_hash = last[2].new[j].original_hash
    /\ store # <<>>

-----------------------------------------------------------------------------
(* Claims about normalize_account (SpecAccount).                            *)

\* The digits of a value.
DigitsOf(val) == SelectSeq(StripChars(val), IsDigit)

\* C24: normalize_account returns the trailing 4 digits of a value with at
\* least 4 digits, and otherwise (fewer than 4 digits, 1 to 3 included) the
\* literal value truncated to 12 characters.
C24_TailOfFourOrLiteral ==
    pc = "normalized" =>
        IF Len(DigitsOf(last.val)) >= AccountTail
        THEN last.out = LastN(DigitsOf(last.val), AccountTail)
        ELSE last.out = FirstN(StripChars(last.val), AccountLiteralMax)

\* The value "X12" has two digits and came out as "12", not as "X12".
C24_Witness ==
    /\ pc = "normalized"
    /\ last.val = <<"X", "1", "2">>
    /\ last.out = <<"1", "2">>

-----------------------------------------------------------------------------
(* Claims about pick_column (SpecColumns).                                  *)

\* The aliases of the list that name a column exactly, and the ones that
\* name one when case is ignored, by position.
ExactAliases == {i \in 1..Len(last.candidates) : last.candidates[i] \in Columns(last.columns)}

AnyCaseAliases ==
    {i \in 1..Len(last.candidates) :
        \E c \in Columns(last.columns) : LowerName(c) = LowerName(last.candidates[i])}

\* C25: pick_column of either tool returns the first alias that is a column,
\* matching exactly first and, only if no alias matches exactly, with case
\* ignored; it returns None exactly when no alias matches in either pass.
C25_ExactThenAnyCase ==
    pc = "picked" =>
        /\ ExactAliases # {} =>
              \E i \in ExactAliases :
                 /\ \A j \in ExactAliases : i <= j
                 /\ last.out = last.candidates[i]
        /\ (ExactAliases = {} /\ AnyCaseAliases # {}) =>
              \E i \in AnyCaseAliases :
                 /\ \A j \in AnyCaseAliases : i <= j
                 /\ last.out \in Columns(last.columns)
                 /\ LowerName(last.out) = LowerName(last.candidates[i])
        /\ last.out = NULL <=> AnyCaseAliases = {}

\* csv_to_postgres.py was given the header "date", "amount" and the date
\* aliases, and found no column.
C25_Witness ==
    /\ pc = "picked"
    /\ last.tool = "csv_to_postgres"
    /\ last.columns = <<"date", "amount">>
    /\ last.candidates = DATE_CANDIDATES
    /\ last.out = NULL

-----------------------------------------------------------------------------
(* Claims about parse_amount_series (SpecAmount).                           *)

\* The columns of the file among a list of aliases.
Present(aliases) == {c \in Columns(last.columns) : \E i \in 1..Len(aliases) : aliases[i] = c}

\* The three shapes: a single amount column; a debit or a credit column; a
\* type column together with another column that names an amount.
ShapeSingle == Present(AMOUNT_SINGLE) # {}

ShapeDebitCredit == Present(DEBIT_COLS) # {} \/ Present(CREDIT_COLS(last.tool)) # {}

ShapeTypeFlagged ==
    \E t \in Present(TYPE_COLS(last.tool)) :
        \E c \in Columns(last.columns) : c # t /\ NamesAmount(c)

\* The amount in the cell of column c, zero when the cell is blank.
AmountIn(c) == FillZero(clean_amount(CellAt(last.columns, last.row, c)))

\* The type of the row is one of the debit tokens.
DebitFlagged(t) ==
    LET x == TypeLower(CellAt(last.columns, last.row, t))
    IN x \in {"debit", "direct debit", "dr", "withdrawal", "charge"}

\* C26: parse_amount_series takes the first shape that applies: (a) the
\* single signed amount column; else (b) credit - debit, a missing column or
\* a blank cell counting as zero; else (c) the type-flagged amount column,
\* negative exactly when the type is a debit token and positive otherwise.
\* It returns None exactly when none of the three shapes is present.
C26_FirstShapeThatApplies ==
    pc = "parsed" =>
        /\ ShapeSingle =>
              \E c \in Present(AMOUNT_SINGLE) :
                 last.out = clean_amount(CellAt(last.columns, last.row, c))
        /\ (~ShapeSingle /\ ShapeDebitCredit) =>
              last.out =
                 << (IF Present(CREDIT_COLS(last.tool)) = {} THEN 0
                     ELSE AmountIn(CHOOSE c \in Present(CREDIT_COLS(last.tool)) : TRUE))
                    - (IF Present(DEBIT_COLS) = {} THEN 0
                       ELSE AmountIn(CHOOSE c \in Present(DEBIT_COLS) : TRUE)) >>
        /\ (~ShapeSingle /\ ~ShapeDebitCredit /\ ShapeTypeFlagged) =>
              \E t \in Present(TYPE_COLS(last.tool)) :
                 \E c \in Columns(last.columns) :
                    /\ c # t /\ NamesAmount(c)
                    /\ last.out # NULL
                    /\ last.out # <<>> =>
                          /\ Abs(last.out[1]) = Abs(AmountIn(c))
                          /\ last.out[1] < 0 <=> DebitFlagged(t)
        /\ last.out = NULL <=> ~(ShapeSingle \/ ShapeDebitCredit \/ ShapeTypeFlagged)

\* A file with the columns Type and Transaction Value, a row of type Debit
\* whose value cell reads -4.50: the amount came out as +4.50.
C26_Witness ==
    /\ pc = "parsed"
    /\ last.columns = <<"Type", "Transaction Value">>
    /\ last.row = <<"Debit", "-4.50">>
    /\ last.out = <<450>>

-----------------------------------------------------------------------------
(* Claims about reviewed records under later scans (SpecRestage).           *)

-----------------------------------------------------------------------------
(* Claims about the kept transaction of a review (SpecKeep).                *)

-----------------------------------------------------------------------------
(* Claims about the rows deduplicate_dataframe drops (SpecDedup).           *)

\* Two rows are duplicates under tier 1, 2 or 3.
DuplicateUnderSomeTier(a, b) ==
    \/ HasTxnIdAccount(a) /\ HasTxnIdAccount(b) /\ Key1(a) = Key1(b)
    \/ HasReference(a) /\ HasReference(b) /\ Key2(a) = Key2(b)
    \/ Key3(a) = Key3(b)

\* The rows of the input that are not in the output.
DroppedRows == {j \in 1..Len(df) : \A i \in 1..Len(deduped) : deduped[i] # df[j]}

\* C30: the output of deduplicate_dataframe is a sub-collection of its
\* input, and for every row it drops a row of the output is a duplicate of
\* the dropped row under tier 1, 2 or 3.
C30_DroppedRowHasSurvivingMatch ==
    pc = "deduped" =>
        /\ \A i \in 1..Len(deduped) : \E j \in 1..Len(df) : df[j] = deduped[i]
        /\ \A i, k \in 1..Len(deduped) : i # k => deduped[i] # deduped[k]
        /\ \A j \in DroppedRows :
              \E i \in 1..Len(deduped) : DuplicateUnderSomeTier(df[j], deduped[i])

\* Three rows went in and one came out, and one of the two dropped rows is
\* no duplicate of the survivor under any tier.
C30_Witness ==
    /\ pc = "deduped"
    /\ Len(df) = 3
    /\ Len(deduped) = 1
    /\ \E j \in DroppedRows : ~DuplicateUnderSomeTier(df[j], deduped[1])

=============================================================================
